---------------------------- MODULE Spec2Model ----------------------------
(***************************************************************************)
(* A model of polyclaude's Antigravity proxy interceptor                   *)
(* (startAntigravityProxy and its helpers): model resolution, tool-schema  *)
(* sanitisation, the cloudcode envelope, and the unwrapping of single and  *)
(* streamed (SSE) responses.                                               *)
(*                                                                         *)
(* Texts (URLs, header values, upstream bytes, client output) are TLA+     *)
(* strings handled character by character.  JSON values are tagged         *)
(* records; objects keep their keys in JavaScript's enumeration order.     *)
(***************************************************************************)
EXTENDS Integers, Sequences, FiniteSets, TLC

VARIABLES
    req,        \* the inbound request: [method, url, xGoogKey, authorization, body]
    pc,         \* where the handler is: received, awaitFetch, awaitText, streaming, done
    model,      \* the handler's local `model` once resolved (JUndef before)
    res,        \* the response: [status, headers, writes, ended, closed]
    calls,      \* the upstream fetch calls issued, in order
    upstream,   \* the upstream response: [status, hasBody, body, pos]
    buffer,     \* pump's `buffer`
    pending,    \* the bytes the streaming TextDecoder holds back
    outcome,    \* the branch the handler ended in ("" while in flight)
    suspended,  \* a second exchange in flight, waiting at one of its awaits
    schema,     \* a tool-schema tree handed to sanitizeSchema
    sanitized,  \* the call made on it: [done, isClaudeModel, out]
    launch,     \* a launch of the command-line tool and the files it writes
    alias,      \* the aliases file and the last alias command run on it
    token,      \* a Google token file and the clock it is read against
    auth        \* a Copilot device authorization under way

vars == <<req, pc, model, res, calls, upstream, buffer, pending, outcome,
          suspended, schema, sanitized, launch, alias, token, auth>>

handlerVars ==
    <<req, pc, model, res, calls, upstream, buffer, pending, outcome, suspended>>

sanitizerVars == <<schema, sanitized>>

\* The state of the command-line tool.
cliVars == <<launch, alias, token, auth>>

\* What a step of one exchange leaves alone.
otherVars == <<suspended, schema, sanitized, cliVars>>

\* What a step of the interceptor can change.
proxyVars == <<handlerVars, sanitizerVars>>

\* What a step of a launch, of an alias command, of a token read and of a
\* device authorization leave alone.
besideLaunch == <<proxyVars, alias, token, auth>>
besideAlias == <<proxyVars, launch, token, auth>>
besideToken == <<proxyVars, launch, alias, auth>>
besideAuth == <<proxyVars, launch, alias, token>>

(***************************************************************************)
(* Text helpers (JavaScript String methods).                               *)
(***************************************************************************)

\* s.charAt(i-1): the i-th character, "" outside the string.
Char(s, i) == IF i >= 1 /\ i <= Len(s) THEN SubSeq(s, i, i) ELSE ""

\* s.substring(i-1): the text from the i-th character on.
From(s, i) == IF i > Len(s) THEN "" ELSE SubSeq(s, i, Len(s))

\* s.startsWith(p)
StartsWith(s, p) == Len(s) >= Len(p) /\ SubSeq(s, 1, Len(p)) = p

\* The positions >= i of s where sub occurs.
Occurrences(s, sub, i) ==
    {j \in i..(Len(s) - Len(sub) + 1) : SubSeq(s, j, j + Len(sub) - 1) = sub}

\* s.indexOf(sub, i-1) + 1: the first position >= i where sub occurs, 0 if none.
IndexFrom(s, sub, i) ==
    IF Occurrences(s, sub, i) = {} THEN 0
    ELSE CHOOSE j \in Occurrences(s, sub, i) : \A k \in Occurrences(s, sub, i) : j <= k

\* s.indexOf(sub) + 1
IndexOf(s, sub) == IndexFrom(s, sub, 1)

\* s.includes(sub)
Includes(s, sub) == IndexOf(s, sub) # 0

\* The white space of the modelled alphabet (JavaScript's WhiteSpace and
\* LineTerminator productions restricted to it).
IsSpace(c) == c = " " \/ c = "\t" \/ c = "\r" \/ c = "\n"

RECURSIVE TrimEnd(_)
\* s.trimEnd()
TrimEnd(s) ==
    IF Len(s) = 0 THEN s
    ELSE IF IsSpace(Char(s, Len(s))) THEN TrimEnd(SubSeq(s, 1, Len(s) - 1))
    ELSE s

RECURSIVE TrimStart(_)
\* s.trimStart()
TrimStart(s) ==
    IF Len(s) = 0 THEN s
    ELSE IF IsSpace(Char(s, 1)) THEN TrimStart(From(s, 2))
    ELSE s

\* s.trim()
Trim(s) == TrimEnd(TrimStart(s))

Digits == "0123456789"

IsDigit(c) == Len(c) = 1 /\ Includes(Digits, c)

\* The value of a decimal digit.
DigitVal(c) == IndexOf(Digits, c) - 1

RECURSIVE NatToStr(_)
\* The decimal text of a natural number.
NatToStr(n) ==
    IF n < 10 THEN Char(Digits, n + 1)
    ELSE NatToStr(n \div 10) \o Char(Digits, (n % 10) + 1)

\* String(n) for an integer n.
IntToStr(n) == IF n < 0 THEN "-" \o NatToStr(0 - n) ELSE NatToStr(n)

RECURSIVE DigitsToNat(_, _)
\* The number a run of decimal digits denotes, acc being the value so far.
DigitsToNat(s, acc) ==
    IF Len(s) = 0 THEN acc
    ELSE DigitsToNat(From(s, 2), 10 * acc + DigitVal(Char(s, 1)))

RECURSIVE AllDigits(_)
AllDigits(s) ==
    Len(s) = 0 \/ (IsDigit(Char(s, 1)) /\ AllDigits(From(s, 2)))

(***************************************************************************)
(* JSON / JavaScript values.                                               *)
(***************************************************************************)

JNull == [t |-> "null"]
JUndef == [t |-> "undef"]
JBool(b) == [t |-> "bool", b |-> b]
JNum(n) == [t |-> "num", n |-> n]
JStr(s) == [t |-> "str", s |-> s]
JArr(items) == [t |-> "arr", a |-> items]
JObj(keys, vals) == [t |-> "obj", k |-> keys, v |-> vals]
EmptyObj == JObj(<<>>, <<>>)
\* A function value (Object.prototype members reached through a lookup).
JFunc(name) == [t |-> "func", f |-> name]
\* The outcome of an evaluation that raised an exception.
Thrown == [t |-> "throw"]

\* JavaScript's ToBoolean.
Truthy(x) ==
    CASE x.t = "null" -> FALSE
      [] x.t = "undef" -> FALSE
      [] x.t = "bool" -> x.b
      [] x.t = "num" -> x.n # 0
      [] x.t = "str" -> x.s # ""
      [] OTHER -> TRUE

\* typeof x === 'object'
TypeofObject(x) == x.t \in {"null", "arr", "obj"}

\* The position of key in a key sequence, 0 when absent.
KeyIndex(keys, key) ==
    IF \E i \in 1..Len(keys) : keys[i] = key
    THEN CHOOSE i \in 1..Len(keys) : keys[i] = key
    ELSE 0

HasKey(o, key) == o.t = "obj" /\ KeyIndex(o.k, key) # 0

\* An array index as a property key: "0", or digits without a leading zero.
IsIndexKey(key) ==
    /\ Len(key) >= 1
    /\ AllDigits(key)
    /\ (Len(key) = 1 \/ Char(key, 1) # "0")

\* Where a new key goes in an object's enumeration order: integer keys
\* first, ascending, then the other keys in insertion order.
InsertPos(keys, key) ==
    IF ~IsIndexKey(key) THEN Len(keys) + 1
    ELSE LET later == {i \in 1..Len(keys) :
                          \/ ~IsIndexKey(keys[i])
                          \/ DigitsToNat(keys[i], 0) > DigitsToNat(key, 0)}
         IN  IF later = {} THEN Len(keys) + 1
             ELSE CHOOSE i \in later : \A j \in later : i <= j

InsertAt(seq, pos, x) ==
    SubSeq(seq, 1, pos - 1) \o <<x>> \o SubSeq(seq, pos, Len(seq))

RemoveAt(seq, pos) ==
    SubSeq(seq, 1, pos - 1) \o SubSeq(seq, pos + 1, Len(seq))

\* o[key] = val on a plain object: an existing key keeps its place.
ObjSet(o, key, val) ==
    LET i == KeyIndex(o.k, key)
    IN  IF i # 0 THEN JObj(o.k, [o.v EXCEPT ![i] = val])
        ELSE LET p == InsertPos(o.k, key)
             IN  JObj(InsertAt(o.k, p, key), InsertAt(o.v, p, val))

\* delete o[key]
ObjDelete(o, key) ==
    LET i == KeyIndex(o.k, key)
    IN  IF i = 0 THEN o ELSE JObj(RemoveAt(o.k, i), RemoveAt(o.v, i))

\* The names Object.prototype gives every plain object.
ObjectPrototypeKeys ==
    {"constructor", "toString", "valueOf", "hasOwnProperty",
     "isPrototypeOf", "propertyIsEnumerable", "toLocaleString", "__proto__"}

\* x[key] for a value that is not null or undefined (own properties, then
\* Object.prototype).
Get(x, key) ==
    IF x.t = "obj" /\ KeyIndex(x.k, key) # 0 THEN x.v[KeyIndex(x.k, key)]
    ELSE IF key \in ObjectPrototypeKeys THEN JFunc(key)
    ELSE JUndef


(***************************************************************************)
(* JSON.parse and JSON.stringify.  The modelled texts hold integers only   *)
(* (no fraction or exponent) and strings without escapes, so the grammar   *)
(* below is JSON's restricted to them.  A parse result is                  *)
(* [ok, v, p]: whether a value was read, the value, the next position.     *)
(***************************************************************************)

ParseFail == [ok |-> FALSE, v |-> JNull, p |-> 0]

ParseOk(val, next) == [ok |-> TRUE, v |-> val, p |-> next]

\* JSON's insignificant white space.
IsJsonWs(c) == c = " " \/ c = "\t" \/ c = "\r" \/ c = "\n"

RECURSIVE SkipWs(_, _)
SkipWs(s, p) == IF IsJsonWs(Char(s, p)) THEN SkipWs(s, p + 1) ELSE p

RECURSIVE DigitsEnd(_, _)
\* The position after the run of digits that starts at p.
DigitsEnd(s, p) == IF IsDigit(Char(s, p)) THEN DigitsEnd(s, p + 1) ELSE p

\* number: -? (0 | [1-9][0-9]*)
ParseNumber(s, p) ==
    LET neg == Char(s, p) = "-"
        d == IF neg THEN p + 1 ELSE p
        e == IF Char(s, d) = "0" THEN d + 1 ELSE DigitsEnd(s, d)
    IN  IF e = d THEN ParseFail
        ELSE LET n == DigitsToNat(SubSeq(s, d, e - 1), 0)
             IN  ParseOk(JNum(IF neg THEN 0 - n ELSE n), e)

RECURSIVE StringEnd(_, _)
\* The position of the quote closing the string whose first character is at
\* p, 0 if a control character or the end of the text comes first.
StringEnd(s, p) ==
    LET c == Char(s, p)
    IN  IF c = "" \/ c = "\t" \/ c = "\r" \/ c = "\n" THEN 0
        ELSE IF c = "\"" THEN p
        ELSE StringEnd(s, p + 1)

\* string: the opening quote is at p.
ParseString(s, p) ==
    LET e == StringEnd(s, p + 1)
    IN  IF e = 0 THEN ParseFail ELSE ParseOk(JStr(SubSeq(s, p + 1, e - 1)), e + 1)

ParseLiteral(s, p, word, val) ==
    IF StartsWith(From(s, p), word) THEN ParseOk(val, p + Len(word)) ELSE ParseFail

RECURSIVE ParseValue(_, _)
RECURSIVE ParseElements(_, _, _)
RECURSIVE ParseMembers(_, _, _)

\* elements of an array after "[" or ",": p is at the next element.
ParseElements(s, p, acc) ==
    LET r == ParseValue(s, SkipWs(s, p))
    IN  IF ~r.ok THEN ParseFail
        ELSE LET q == SkipWs(s, r.p)
                 items == Append(acc, r.v)
             IN  IF Char(s, q) = "," THEN ParseElements(s, q + 1, items)
                 ELSE IF Char(s, q) = "]" THEN ParseOk(JArr(items), q + 1)
                 ELSE ParseFail

\* members of an object after "{" or ",": p is at the next member.  A
\* repeated key keeps its first place and takes the last value.
ParseMembers(s, p, acc) ==
    LET k == SkipWs(s, p)
        key == IF Char(s, k) = "\"" THEN ParseString(s, k) ELSE ParseFail
    IN  IF ~key.ok THEN ParseFail
        ELSE LET c == SkipWs(s, key.p)
             IN  IF Char(s, c) # ":" THEN ParseFail
                 ELSE LET r == ParseValue(s, SkipWs(s, c + 1))
                      IN  IF ~r.ok THEN ParseFail
                          ELSE LET q == SkipWs(s, r.p)
                                   o == ObjSet(acc, key.v.s, r.v)
                               IN  IF Char(s, q) = "," THEN ParseMembers(s, q + 1, o)
                                   ELSE IF Char(s, q) = "}" THEN ParseOk(o, q + 1)
                                   ELSE ParseFail

\* value: p is at its first character.
ParseValue(s, p) ==
    LET c == Char(s, p)
    IN  CASE c = "{" ->
                 IF Char(s, SkipWs(s, p + 1)) = "}"
                 THEN ParseOk(EmptyObj, SkipWs(s, p + 1) + 1)
                 ELSE ParseMembers(s, p + 1, EmptyObj)
          [] c = "[" ->
                 IF Char(s, SkipWs(s, p + 1)) = "]"
                 THEN ParseOk(JArr(<<>>), SkipWs(s, p + 1) + 1)
                 ELSE ParseElements(s, p + 1, <<>>)
          [] c = "\"" -> ParseString(s, p)
          [] c = "t" -> ParseLiteral(s, p, "true", JBool(TRUE))
          [] c = "f" -> ParseLiteral(s, p, "false", JBool(FALSE))
          [] c = "n" -> ParseLiteral(s, p, "null", JNull)
          [] c = "-" \/ IsDigit(c) -> ParseNumber(s, p)
          [] OTHER -> ParseFail

\* JSON.parse(text): the value, or Thrown (SyntaxError).
JsonParse(text) ==
    LET r == ParseValue(text, SkipWs(text, 1))
    IN  IF r.ok /\ SkipWs(text, r.p) = Len(text) + 1 THEN r.v ELSE Thrown

RECURSIVE JsonStringify(_)
RECURSIVE StringifyItems(_, _)
RECURSIVE StringifyMembers(_, _, _)

\* The elements from the i-th on, comma separated.
StringifyItems(items, i) ==
    IF i > Len(items) THEN ""
    ELSE JsonStringify(items[i])
         \o (IF i < Len(items) THEN "," ELSE "")
         \o StringifyItems(items, i + 1)

\* The members from the i-th on, each after a comma; a member whose value is
\* undefined or a function is left out.
StringifyMembers(keys, vals, i) ==
    IF i > Len(keys) THEN ""
    ELSE (IF vals[i].t \in {"undef", "func"} THEN ""
          ELSE ",\"" \o keys[i] \o "\":" \o JsonStringify(vals[i]))
         \o StringifyMembers(keys, vals, i + 1)

\* JSON.stringify(x) as a member or an element (an undefined element of an
\* array is written null).
JsonStringify(x) ==
    CASE x.t = "null" -> "null"
      [] x.t = "bool" -> IF x.b THEN "true" ELSE "false"
      [] x.t = "num" -> IntToStr(x.n)
      [] x.t = "str" -> "\"" \o x.s \o "\""
      [] x.t = "arr" -> "[" \o StringifyItems(x.a, 1) \o "]"
      [] x.t = "obj" -> "{" \o From(StringifyMembers(x.k, x.v, 1), 2) \o "}"
      [] OTHER -> "null"


(***************************************************************************)
(* Model Resolver: MODEL_MAP and its lookup.                               *)
(***************************************************************************)

\* const MODEL_MAP: shorthand model names and what the API expects.
MODEL_MAP ==
    JObj(<<"gemini-3.1-pro", "gemini-3-pro", "gemini-2.5-flash-thinking",
           "antigravity-latest">>,
         <<JStr("gemini-3.1-pro-low"), JStr("gemini-3-pro-low"),
           JStr("gemini-2.5-flash"), JStr("gemini-3.1-pro-low")>>)

\* a || b
OrElse(a, b) == IF Truthy(a) THEN a ELSE b

\* model = MODEL_MAP[model] || model, for a model that is a string: the
\* lookup goes through MODEL_MAP's own keys and then Object.prototype.
Resolve(name) == OrElse(Get(MODEL_MAP, name.s), name)

(***************************************************************************)
(* Envelope Codec, response side.                                          *)
(***************************************************************************)

\* parsed.response || parsed, inside the try block that parsed the text:
\* Thrown when JSON.parse raised, and when parsed is null (reading a
\* property of null raises TypeError).
UnwrapResponse(parsed) ==
    IF parsed = Thrown \/ parsed.t = "null" THEN Thrown
    ELSE OrElse(Get(parsed, "response"), parsed)

(***************************************************************************)
(* Schema Sanitizer.                                                       *)
(***************************************************************************)

NUMERIC_SCHEMA_KEYS ==
    {"maxLength", "minLength", "maxItems", "minItems", "minimum", "maximum",
     "exclusiveMinimum", "exclusiveMaximum", "multipleOf"}

DISALLOWED_SCHEMA_KEYS ==
    {"$schema", "default", "$defs", "$ref", "format",
     "additionalProperties", "$id", "$comment", "examples",
     "readOnly", "writeOnly", "deprecated", "$anchor",
     "$dynamicRef", "$dynamicAnchor", "contentEncoding",
     "contentMediaType", "contentSchema", "if", "then", "else",
     "dependentRequired", "dependentSchemas", "unevaluatedItems",
     "unevaluatedProperties", "title"}

NaN == [t |-> "nan"]

\* Number(text) for a text of the modelled alphabet (no '.', exponent, radix
\* prefix or "Infinity"): white space is trimmed, the empty text is 0, an
\* optionally signed run of digits is its value, anything else is NaN.
ToNumber(text) ==
    LET body == Trim(text)
        signed == Char(body, 1) = "-" \/ Char(body, 1) = "+"
        digs == IF signed THEN From(body, 2) ELSE body
    IN  IF body = "" THEN JNum(0)
        ELSE IF Len(digs) >= 1 /\ AllDigits(digs)
             THEN JNum(IF Char(body, 1) = "-" THEN 0 - DigitsToNat(digs, 0)
                       ELSE DigitsToNat(digs, 0))
        ELSE NaN

\* const n = Number(v); out[k] = Number.isNaN(n) ? v : n   (v a string)
CoerceNumeric(v) ==
    LET n == ToNumber(v.s) IN IF n = NaN THEN v ELSE n

RECURSIVE AssignChars(_, _, _)
\* Object.assign(out, text) from the i-th character on: one property per
\* character, named by its index.
AssignChars(out, text, i) ==
    IF i > Len(text) THEN out
    ELSE AssignChars(ObjSet(out, NatToStr(i - 1), JStr(Char(text, i))), text, i + 1)

RECURSIVE AssignSeq(_, _, _, _)
\* out[keys[j]] = vals[j] for j = i, i+1, ...
AssignSeq(out, keys, vals, i) ==
    IF i > Len(keys) THEN out
    ELSE AssignSeq(ObjSet(out, keys[i], vals[i]), keys, vals, i + 1)

\* Object.assign(out, src): the own enumerable properties of src, in order.
ObjectAssign(out, src) ==
    CASE src.t = "obj" -> AssignSeq(out, src.k, src.v, 1)
      [] src.t = "arr" ->
             AssignSeq(out, [i \in 1..Len(src.a) |-> NatToStr(i - 1)], src.a, 1)
      [] src.t = "str" -> AssignChars(out, src.s, 1)
      [] OTHER -> out

\* if (out.properties && !out.type) out.type = 'object'
EnsureType(out) ==
    IF Truthy(Get(out, "properties")) /\ ~Truthy(Get(out, "type"))
    THEN ObjSet(out, "type", JStr("object"))
    ELSE out

\* if (out[key] && typeof out[key] === 'object' && !out[key].type)
\*     out[key].type = 'object'
\* for key input_schema and parameters.  On an array the assignment adds a
\* property no serialisation shows, so the array is left as it is.
EnsureChildType(out, key) ==
    LET child == Get(out, key)
    IN  IF Truthy(child) /\ TypeofObject(child) /\ ~Truthy(Get(child, "type"))
           /\ child.t = "obj"
        THEN ObjSet(out, key, ObjSet(child, "type", JStr("object")))
        ELSE out

\* alternatives.filter((s) => s.type !== 'null'), or Thrown when an
\* alternative is null (s.type raises TypeError).
NonNull(alts) ==
    IF \E i \in 1..Len(alts) : alts[i].t = "null" THEN Thrown
    ELSE LET keep == {i \in 1..Len(alts) : Get(alts[i], "type") # JStr("null")}
         IN  IF keep = {} THEN JArr(<<>>)
             ELSE JArr(<<alts[CHOOSE i \in keep : \A j \in keep : i <= j]>>)

\* A collapse that handles anyOf alone: oneOf is left as it is.
CollapseAnyOfOnly(out, key, isClaudeModel) ==
    IF key # "anyOf" \/ ~(isClaudeModel /\ Truthy(Get(out, key)) /\ Get(out, key).t = "arr")
    THEN out
    ELSE IF NonNull(Get(out, key).a) = Thrown THEN Thrown
    ELSE IF Len(NonNull(Get(out, key).a).a) >= 1
    THEN ObjectAssign(ObjDelete(out, key), NonNull(Get(out, key).a).a[1])
    ELSE out

\* if (isClaudeModel && out[key] && Array.isArray(out[key])) { ... } for
\* key anyOf and oneOf: the first alternative whose type is not 'null'
\* replaces the union key.  NonNull keeps only that first alternative, the
\* only one the code reads.
CollapseUnion(out, key, isClaudeModel) ==
    LET u == Get(out, key)
    IN  IF ~(isClaudeModel /\ Truthy(u) /\ u.t = "arr") THEN out
        ELSE LET nonNull == NonNull(u.a)
             IN  IF nonNull = Thrown THEN Thrown
                 ELSE IF Len(nonNull.a) >= 1
                      THEN ObjectAssign(ObjDelete(out, key), nonNull.a[1])
                 ELSE out

\* The statements of sanitizeSchema after its loop.
Fixups(out, isClaudeModel) ==
    LET typed == EnsureChildType(
                     EnsureChildType(EnsureType(out), "input_schema"),
                     "parameters")
        a == CollapseUnion(typed, "anyOf", isClaudeModel)
    IN  IF a = Thrown THEN Thrown ELSE CollapseUnion(a, "oneOf", isClaudeModel)

RECURSIVE sanitizeSchema(_, _)
RECURSIVE SanitizeItems(_, _, _, _)
RECURSIVE SanitizeEntries(_, _, _, _, _)

\* obj.map(v => sanitizeSchema(v, isClaudeModel)) from the i-th element on.
SanitizeItems(items, i, acc, isClaudeModel) ==
    IF i > Len(items) THEN JArr(acc)
    ELSE LET r == sanitizeSchema(items[i], isClaudeModel)
         IN  IF r = Thrown THEN Thrown
             ELSE SanitizeItems(items, i + 1, Append(acc, r), isClaudeModel)

RECURSIVE SanitizeEntriesStrippingAlways(_, _, _, _, _)
\* The loop without the family test: the disallowed keys are dropped for
\* every target.
SanitizeEntriesStrippingAlways(keys, vals, i, out, isClaudeModel) ==
    IF i > Len(keys) THEN out
    ELSE IF keys[i] \in DISALLOWED_SCHEMA_KEYS
    THEN SanitizeEntriesStrippingAlways(keys, vals, i + 1, out, isClaudeModel)
    ELSE IF keys[i] \in NUMERIC_SCHEMA_KEYS /\ vals[i].t = "str"
    THEN SanitizeEntriesStrippingAlways(keys, vals, i + 1,
                                        ObjSet(out, keys[i], CoerceNumeric(vals[i])),
                                        isClaudeModel)
    ELSE IF sanitizeSchema(vals[i], isClaudeModel) = Thrown THEN Thrown
    ELSE SanitizeEntriesStrippingAlways(keys, vals, i + 1,
                                        ObjSet(out, keys[i],
                                               sanitizeSchema(vals[i], isClaudeModel)),
                                        isClaudeModel)

\* for (const [k, v] of Object.entries(obj)) { ... } from the i-th entry on.
SanitizeEntries(keys, vals, i, out, isClaudeModel) ==
    IF i > Len(keys) THEN out
    ELSE LET k == keys[i]
             v == vals[i]
         IN  IF isClaudeModel /\ k \in DISALLOWED_SCHEMA_KEYS
             THEN SanitizeEntries(keys, vals, i + 1, out, isClaudeModel)
             ELSE IF k \in NUMERIC_SCHEMA_KEYS /\ v.t = "str"
             THEN SanitizeEntries(keys, vals, i + 1,
                                  ObjSet(out, k, CoerceNumeric(v)), isClaudeModel)
             ELSE LET r == sanitizeSchema(v, isClaudeModel)
                  IN  IF r = Thrown THEN Thrown
                      ELSE SanitizeEntries(keys, vals, i + 1,
                                           ObjSet(out, k, r), isClaudeModel)

\* function sanitizeSchema(obj, isClaudeModel): the sanitised copy, or
\* Thrown when the call raises.
sanitizeSchema(obj, isClaudeModel) ==
    IF obj = Thrown THEN Thrown
    ELSE IF ~Truthy(obj) \/ ~TypeofObject(obj) THEN obj
    ELSE IF obj.t = "arr" THEN SanitizeItems(obj.a, 1, <<>>, isClaudeModel)
    ELSE LET out == SanitizeEntries(obj.k, obj.v, 1, EmptyObj, isClaudeModel)
         IN  IF out = Thrown THEN Thrown ELSE Fixups(out, isClaudeModel)


(***************************************************************************)
(* sanitizeSchema on the heap.  JavaScript objects and arrays are cells of *)
(* a heap (a sequence of cells, a cell's address being its index); the     *)
(* members of a cell are scalars or references [t |-> "ref", at |-> a].    *)
(* A result is [h, r]: the heap afterwards and the value returned.         *)
(***************************************************************************)

Ref(at) == [t |-> "ref", at |-> at]

RECURSIVE Store(_, _)
RECURSIVE StoreAll(_, _, _, _)

\* The members from the i-th on put on the heap: r is the sequence of their
\* references.
StoreAll(h, items, i, acc) ==
    IF i > Len(items) THEN [h |-> h, r |-> acc]
    ELSE LET s == Store(h, items[i])
         IN  StoreAll(s.h, items, i + 1, Append(acc, s.r))

\* The tree x as the caller holds it: every object and array a cell of its
\* own.
Store(h, x) ==
    IF x.t = "obj"
    THEN LET s == StoreAll(h, x.v, 1, <<>>)
         IN  [h |-> Append(s.h, JObj(x.k, s.r)), r |-> Ref(Len(s.h) + 1)]
    ELSE IF x.t = "arr"
    THEN LET s == StoreAll(h, x.a, 1, <<>>)
         IN  [h |-> Append(s.h, JArr(s.r)), r |-> Ref(Len(s.h) + 1)]
    ELSE [h |-> h, r |-> x]

RECURSIVE Deref(_, _)
\* The tree a value of the heap stands for.
Deref(h, r) ==
    IF r.t # "ref" THEN r
    ELSE IF h[r.at].t = "obj"
    THEN JObj(h[r.at].k, [i \in 1..Len(h[r.at].v) |-> Deref(h, h[r.at].v[i])])
    ELSE JArr([i \in 1..Len(h[r.at].a) |-> Deref(h, h[r.at].a[i])])

\* if (out[key] && typeof out[key] === 'object' && !out[key].type)
\*     out[key].type = 'object': a write to the cell out[key] refers to.
EnsureChildTypeAt(h, out, key) ==
    LET child == Get(h[out], key)
    IN  IF child.t = "ref"
        THEN IF h[child.at].t = "obj" /\ ~Truthy(Get(h[child.at], "type"))
             THEN [h EXCEPT ![child.at] = ObjSet(@, "type", JStr("object"))]
             ELSE h
        ELSE h

\* The union collapse on the cell out: Object.assign copies the members of
\* the alternative's cell, references included.
CollapseAt(s, out, key, isClaudeModel) ==
    IF s = Thrown THEN Thrown
    ELSE LET u == Get(s.h[out], key)
         IN  IF ~isClaudeModel \/ u.t # "ref" THEN s
             ELSE IF s.h[u.at].t # "arr" THEN s
             ELSE LET nonNull ==
                          NonNull([i \in 1..Len(s.h[u.at].a) |->
                                      IF s.h[u.at].a[i].t = "ref"
                                      THEN s.h[s.h[u.at].a[i].at]
                                      ELSE s.h[u.at].a[i]])
                  IN  IF nonNull = Thrown THEN Thrown
                      ELSE IF Len(nonNull.a) >= 1
                      THEN [s EXCEPT !.h[out] = ObjectAssign(ObjDelete(@, key),
                                                             nonNull.a[1])]
                      ELSE s

\* The statements of sanitizeSchema after its loop, on the cell out.
FixupsAt(s, out, isClaudeModel) ==
    IF s = Thrown THEN Thrown
    ELSE CollapseAt(
             CollapseAt(
                 [s EXCEPT !.h = EnsureChildTypeAt(
                                     EnsureChildTypeAt(
                                         [s.h EXCEPT ![out] = EnsureType(@)],
                                         out, "input_schema"),
                                     out, "parameters")],
                 out, "anyOf", isClaudeModel),
             out, "oneOf", isClaudeModel)

RECURSIVE SanitizeEntriesByReference(_, _, _, _, _, _)
\* A shallow copy: out[key] = value for every entry that is kept, the value
\* being the caller's own object.
SanitizeEntriesByReference(h, keys, vals, i, out, isClaudeModel) ==
    IF i > Len(keys) THEN [h |-> h, r |-> Ref(out)]
    ELSE IF isClaudeModel /\ keys[i] \in DISALLOWED_SCHEMA_KEYS
    THEN SanitizeEntriesByReference(h, keys, vals, i + 1, out, isClaudeModel)
    ELSE SanitizeEntriesByReference(
             [h EXCEPT ![out] =
                 ObjSet(@, keys[i],
                        IF keys[i] \in NUMERIC_SCHEMA_KEYS /\ vals[i].t = "str"
                        THEN CoerceNumeric(vals[i]) ELSE vals[i])],
             keys, vals, i + 1, out, isClaudeModel)

RECURSIVE SanitizeAt(_, _, _)
RECURSIVE SanitizeItemsAt(_, _, _, _, _)
RECURSIVE SanitizeEntriesAt(_, _, _, _, _, _)

\* obj.map(v => sanitizeSchema(v, isClaudeModel)) from the i-th element on.
SanitizeItemsAt(h, items, i, acc, isClaudeModel) ==
    IF i > Len(items) THEN [h |-> Append(h, JArr(acc)), r |-> Ref(Len(h) + 1)]
    ELSE LET s == SanitizeAt(h, items[i], isClaudeModel)
         IN  IF s = Thrown THEN Thrown
             ELSE SanitizeItemsAt(s.h, items, i + 1, Append(acc, s.r), isClaudeModel)

\* The loop over Object.entries(obj) from the i-th entry on, out being the
\* address of the cell of `out`.
SanitizeEntriesAt(h, keys, vals, i, out, isClaudeModel) ==
    IF i > Len(keys) THEN [h |-> h, r |-> Ref(out)]
    ELSE IF isClaudeModel /\ keys[i] \in DISALLOWED_SCHEMA_KEYS
    THEN SanitizeEntriesAt(h, keys, vals, i + 1, out, isClaudeModel)
    ELSE IF keys[i] \in NUMERIC_SCHEMA_KEYS /\ vals[i].t = "str"
    THEN SanitizeEntriesAt([h EXCEPT ![out] = ObjSet(@, keys[i], CoerceNumeric(vals[i]))],
                           keys, vals, i + 1, out, isClaudeModel)
    ELSE LET s == SanitizeAt(h, vals[i], isClaudeModel)
         IN  IF s = Thrown THEN Thrown
             ELSE SanitizeEntriesAt([s.h EXCEPT ![out] = ObjSet(@, keys[i], s.r)],
                                    keys, vals, i + 1, out, isClaudeModel)

\* sanitizeSchema(obj, isClaudeModel) for the value r of heap h.
SanitizeAt(h, r, isClaudeModel) ==
    IF r.t # "ref" THEN [h |-> h, r |-> r]
    ELSE IF h[r.at].t = "arr"
    THEN SanitizeItemsAt(h, h[r.at].a, 1, <<>>, isClaudeModel)
    ELSE FixupsAt(SanitizeEntriesAt(Append(h, EmptyObj), h[r.at].k, h[r.at].v, 1,
                                    Len(h) + 1, isClaudeModel),
                  Len(h) + 1, isClaudeModel)


(***************************************************************************)
(* Stream Transcoder: the body of pump().                                  *)
(*                                                                         *)
(* Upstream bytes are characters; two of them stand for the bytes of a     *)
(* two-byte UTF-8 sequence: "^" is its lead byte and "~" its continuation  *)
(* byte.  In decoded text "@" is the character those two bytes encode and  *)
(* "?" is U+FFFD, the replacement character.  Every other byte is ASCII    *)
(* and decodes to itself.                                                  *)
(***************************************************************************)

LeadByte == "^"
ContByte == "~"
TwoByteChar == "@"
Replacement == "?"

\* Whether the decoder holds a lead byte when it reads the i-th byte: a
\* lead byte is the only byte that leaves it inside a sequence, so this is
\* decided by the byte before (by the chunk before, for the first byte).
PendingAt(bytes, pend, i) ==
    IF i = 1 THEN pend # "" ELSE Char(bytes, i - 1) = LeadByte

\* The text the decoder emits on reading the i-th byte.  An incomplete
\* sequence gives U+FFFD and the byte that broke it is read again.
DecodedAt(bytes, pend, i) ==
    IF PendingAt(bytes, pend, i)
    THEN IF Char(bytes, i) = ContByte THEN TwoByteChar
         ELSE IF Char(bytes, i) = LeadByte THEN Replacement
         ELSE Replacement \o Char(bytes, i)
    ELSE IF Char(bytes, i) = LeadByte THEN ""
    ELSE IF Char(bytes, i) = ContByte THEN Replacement
    ELSE Char(bytes, i)

RECURSIVE DecodedRange(_, _, _, _)
\* The text emitted on reading bytes lo..hi, in order.
DecodedRange(bytes, pend, lo, hi) ==
    IF lo > hi THEN ""
    ELSE IF lo = hi THEN DecodedAt(bytes, pend, lo)
    ELSE DecodedRange(bytes, pend, lo, (lo + hi) \div 2)
         \o DecodedRange(bytes, pend, (lo + hi) \div 2 + 1, hi)

\* The UTF-8 decoder run over bytes with a lead byte possibly pending from
\* the chunk before: [text, pending] once the bytes are used up.
Utf8Decode(bytes, pend) ==
    [text |-> DecodedRange(bytes, pend, 1, Len(bytes)),
     pending |-> IF PendingAt(bytes, pend, Len(bytes) + 1) THEN LeadByte ELSE ""]

\* decoder.decode(value) without the stream flag: an incomplete sequence at
\* the end of the chunk becomes U+FFFD and nothing is kept.
DecodeChunkUnstreamed(pend, bytes) ==
    [text |-> Utf8Decode(bytes, "").text
                  \o (IF Utf8Decode(bytes, "").pending = "" THEN "" ELSE Replacement),
     pending |-> ""]

\* decoder.decode(value, { stream: true }): an incomplete sequence at the
\* end of the chunk is kept for the next call.
DecodeChunk(pend, bytes) == Utf8Decode(bytes, pend)

\* try { const parsed = JSON.parse(text); ... parsed.response || parsed ... }:
\* the unwrapped value, or Thrown when the try block raises.
UnwrapText(text) == UnwrapResponse(JsonParse(text))

\* A catch block that writes nothing: the malformed frame is dropped.
DataWriteDropping(asIs, unwrapped) ==
    IF unwrapped = Thrown THEN ""
    ELSE "data: " \o JsonStringify(unwrapped) \o "\n"

\* try { ... res.write('data: ' + JSON.stringify(unwrapped) + '\n') }
\* catch { res.write(asIs) }: the text written for a data line.
DataWrite(asIs, unwrapped) ==
    IF unwrapped = Thrown THEN asIs
    ELSE "data: " \o JsonStringify(unwrapped) \o "\n"

\* A transcoder that takes a comment line for noise and forwards nothing
\* for it.
TranscodeLineDroppingComments(line) ==
    IF StartsWith(line, ":") THEN ""
    ELSE IF ~StartsWith(line, "data: ") THEN line \o "\n"
    ELSE DataWrite(line \o "\n", UnwrapText(From(line, 7)))

\* if (!line.startsWith('data: ')) { res.write(line + '\n'); continue }
\* const jsonStr = line.substring(6); try { ... } catch { res.write(line + '\n') }:
\* what is written for one trimmed line.
TranscodeLine(line) ==
    IF ~StartsWith(line, "data: ") THEN line \o "\n"
    ELSE DataWrite(line \o "\n", UnwrapText(From(line, 7)))

\* "if" in place of "while": one line is taken from the buffer per chunk.
ProcessLinesOnce(st) ==
    LET newlineIdx == IndexOf(st.buffer, "\n")
    IN  IF newlineIdx = 0 THEN st
        ELSE [buffer |-> From(st.buffer, newlineIdx + 1),
              pending |-> st.pending,
              writes |-> Append(st.writes,
                                TranscodeLine(TrimEnd(SubSeq(st.buffer, 1,
                                                             newlineIdx - 1))))]

RECURSIVE ProcessLinesSkippingBlank(_)
\* The loop with "if (!line) continue" before the write: blank lines are
\* not forwarded.
ProcessLinesSkippingBlank(st) ==
    LET newlineIdx == IndexOf(st.buffer, "\n")
    IN  IF newlineIdx = 0 THEN st
        ELSE ProcessLinesSkippingBlank(
                 [buffer |-> From(st.buffer, newlineIdx + 1),
                  pending |-> st.pending,
                  writes |-> IF TrimEnd(SubSeq(st.buffer, 1, newlineIdx - 1)) = ""
                             THEN st.writes
                             ELSE Append(st.writes,
                                         TranscodeLine(TrimEnd(SubSeq(st.buffer, 1,
                                                                      newlineIdx - 1))))])

RECURSIVE ProcessLines(_)
\* while ((newlineIdx = buffer.indexOf('\n')) !== -1) { ... }: the state
\* [buffer, pending, writes] once no newline is left in the buffer.
ProcessLines(st) ==
    LET newlineIdx == IndexOf(st.buffer, "\n")
    IN  IF newlineIdx = 0 THEN st
        ELSE ProcessLines(
                 [buffer |-> From(st.buffer, newlineIdx + 1),
                  pending |-> st.pending,
                  writes |-> Append(st.writes,
                                    TranscodeLine(TrimEnd(SubSeq(st.buffer, 1,
                                                                 newlineIdx - 1))))])

\* buffer += decoder.decode(value, { stream: true })
Buffered(st, d) ==
    [buffer |-> st.buffer \o d.text, pending |-> d.pending, writes |-> st.writes]

\* One iteration of pump's loop for a chunk that was read: st is
\* [buffer, pending, writes].
OnChunk(st, bytes) == ProcessLines(Buffered(st, DecodeChunk(st.pending, bytes)))

\* "Flush any remaining buffer": what pump writes after the loop, as a
\* sequence of writes.
FlushTail(buf) ==
    IF Trim(buf) = "" THEN <<>>
    ELSE IF StartsWith(buf, "data: ")
    THEN <<DataWrite(buf, UnwrapText(From(buf, 7)))>>
    ELSE <<buf>>

\* The statements after pump's loop: the decoder is not flushed, so a
\* pending lead byte is lost.
OnEnd(st) ==
    [buffer |-> st.buffer, pending |-> st.pending,
     writes |-> st.writes \o FlushTail(st.buffer)]

RECURSIVE Concat(_)
\* The writes joined: the body the client receives.
Concat(writes) ==
    IF Len(writes) = 0 THEN "" ELSE Head(writes) \o Concat(Tail(writes))


(***************************************************************************)
(* Gateway Handler: the middleware of startAntigravityProxy, as operators  *)
(* on a request [method, url, xGoogKey, authorization, body].  A header    *)
(* that is absent is JUndef; so is a body express.json() did not set.      *)
(***************************************************************************)

ANTIGRAVITY_BASE == "https://cloudcode-pa.googleapis.com/v1internal"

\* /^Bearer/i matched at the start of text.
IsBearerWord(text) ==
    /\ Len(text) >= 6
    /\ \A i \in 1..6 : Char(text, i) \in {Char("Bearer", i), Char("bearer", i),
                                          Char("BEARER", i)}

\* authHeader.replace(/^Bearer\s+/i, '')
StripBearer(text) ==
    IF IsBearerWord(text) /\ IsSpace(Char(text, 7))
    THEN TrimStart(From(text, 7))
    ELSE text

\* The Authorization header tried first, the vendor header second.
RawTokenPreferringAuthorization(r) ==
    IF Truthy(r.authorization) /\ StripBearer(r.authorization.s) # ""
    THEN JStr(StripBearer(r.authorization.s))
    ELSE r.xGoogKey

\* A token made up for a request that carries none.
RawTokenDefaulted(r) ==
    IF Truthy(r.xGoogKey) THEN r.xGoogKey
    ELSE IF Truthy(r.authorization) THEN JStr(StripBearer(r.authorization.s))
    ELSE JStr("anonymous")

\* const rawToken = xGoogKey || (authHeader ? authHeader.replace(...) : undefined)
RawToken(r) ==
    OrElse(r.xGoogKey,
           IF Truthy(r.authorization) THEN JStr(StripBearer(r.authorization.s))
           ELSE JUndef)

RECURSIVE UrlModelFrom(_, _)
\* req.url.match(/models\/([^:]+):/) tried from position i on: the captured
\* group, or "" when nothing matches.
UrlModelFrom(url, i) ==
    LET m == IndexFrom(url, "models/", i)
        c == IF m = 0 THEN 0 ELSE IndexFrom(url, ":", m + 7)
    IN  IF m = 0 \/ c = 0 THEN ""
        ELSE IF c > m + 7 THEN SubSeq(url, m + 7, c - 1)
        ELSE UrlModelFrom(url, m + 1)

\* x?.[key]
OptGet(x, key) == IF x.t \in {"undef", "null"} THEN JUndef ELSE Get(x, key)

\* let model = 'gemini-3.1-pro-low'; if (match && match[1]) model = match[1];
\* else if (req.body?.model) model = req.body.model
RequestedModel(r) ==
    IF UrlModelFrom(r.url, 1) # "" THEN JStr(UrlModelFrom(r.url, 1))
    ELSE IF Truthy(OptGet(r.body, "model")) THEN OptGet(r.body, "model")
    ELSE JStr("gemini-3.1-pro-low")

\* The model after "model = MODEL_MAP[model] || model".  A number names the
\* property its decimal text names.
ResolvedModel(r) ==
    LET name == RequestedModel(r)
    IN  IF name.t = "num" THEN OrElse(Get(MODEL_MAP, IntToStr(name.n)), name)
        ELSE Resolve(name)

\* Every model taken for a Claude model.
IsClaudeAlways(r) == TRUE

\* No model taken for a Claude model.
IsClaudeNever(r) == FALSE

\* const isClaude = model.includes('claude')
IsClaude(r) == Includes(ResolvedModel(r).s, "claude")

\* body.tools = <the sanitised tools>, or Thrown when sanitizeSchema raised.
WithTools(body, tools) ==
    IF tools = Thrown THEN Thrown ELSE ObjSet(body, "tools", tools)

\* const body = req.body; const isClaude = model.includes('claude');
\* if (body?.tools) body.tools = sanitizeSchema(body.tools, isClaude):
\* the body afterwards, or Thrown when a statement raised
\* (model.includes raises unless model is a string).
SanitizedBody(r) ==
    IF ResolvedModel(r).t # "str" THEN Thrown
    ELSE IF Truthy(OptGet(r.body, "tools"))
    THEN WithTools(r.body, sanitizeSchema(Get(r.body, "tools"), IsClaude(r)))
    ELSE r.body

\* function generateRequestId(), for the UUID crypto.randomUUID() drew.
generateRequestId(id) == "projects/p/locations/us-central1/trajectories/" \o id

\* const wrapper = { project, model, requestType, userAgent, requestId, request }
Wrapper(r, id, body) ==
    JObj(<<"project", "model", "requestType", "userAgent", "requestId", "request">>,
         <<JStr("rising-fact-p41fc"), ResolvedModel(r), JStr("agent"),
           JStr("antigravity"), JStr(generateRequestId(id)), body>>)

\* The stream flag taken from the url alone.
IsStreamByUrl(r) == Includes(r.url, "streamGenerateContent")

\* const isStream = req.url.includes('streamGenerateContent') || req.body?.stream === true
IsStream(r) ==
    IF Includes(r.url, "streamGenerateContent") THEN TRUE
    ELSE OptGet(r.body, "stream") = JBool(TRUE)

\* const targetUrl = `${ANTIGRAVITY_BASE}:${action}${alt}`
TargetUrl(r) ==
    ANTIGRAVITY_BASE \o ":"
        \o (IF IsStream(r) THEN "streamGenerateContent" ELSE "generateContent")
        \o (IF IsStream(r) THEN "?alt=sse" ELSE "")

\* The fetch(targetUrl, {...}) the handler issues, body being the request
\* body after sanitising.
UpstreamCall(r, id, body) ==
    [url |-> TargetUrl(r),
     authorization |-> "Bearer " \o RawToken(r).s,
     body |-> Wrapper(r, id, body),
     payload |-> JsonStringify(Wrapper(r, id, body))]

\* result.text(): the whole body decoded; an incomplete sequence at its end
\* decodes to U+FFFD.
BodyText(bytes) ==
    LET d == Utf8Decode(bytes, "")
    IN  IF d.pending = "" THEN d.text ELSE d.text \o Replacement

(***************************************************************************)
(* The exchange as a state machine: one action per run of the handler      *)
(* between two awaits.                                                     *)
(***************************************************************************)

\* A file whose text JSON.parse rejects.
Unparsable == [t |-> "garbled"]

\* No launch is under way.
NoLaunch == [phase |-> "none"]

\* No aliases file, no alias command run.
NoAlias == [file |-> JUndef, last |-> <<>>, said |-> ""]

\* No token file is being read.
NoToken == [phase |-> "none"]

\* No device authorization is under way.
NoAuth == [phase |-> "none"]

\* The command-line tool is not in use.
CliIdle ==
    /\ launch = NoLaunch
    /\ alias = NoAlias
    /\ token = NoToken
    /\ auth = NoAuth

\* No second exchange is in flight.
NoExchange == [pc |-> "none"]

NoResponse == [status |-> 0, hasBody |-> FALSE, body |-> "", pos |-> 0]

\* The response object: closed once the client has gone away.
FreshRes ==
    [status |-> 0, headers |-> {}, writes |-> <<>>, ended |-> 0, closed |-> FALSE]

NotSanitized ==
    [done |-> FALSE, isClaudeModel |-> FALSE, out |-> JUndef,
     heap |-> <<>>, ref |-> JUndef]

\* res.status(code).json(value)
ResJson(r, code, value) ==
    [r EXCEPT !.status = code,
              !.headers = @ \cup {<<"Content-Type", "application/json">>},
              !.writes = Append(@, JsonStringify(value)),
              !.ended = @ + 1]

\* The raw text given up for the internal-error response.
ResSendFailing(r, code, text) ==
    [r EXCEPT !.status = 500,
              !.headers = @ \cup {<<"Content-Type", "application/json">>},
              !.writes = Append(@, "{\"error\":\"Antigravity Interceptor Failed\"}"),
              !.ended = @ + 1]

\* res.status(code).send(text)
ResSend(r, code, text) ==
    [r EXCEPT !.status = code,
              !.headers = @ \cup {<<"Content-Type", "text/html">>},
              !.writes = Append(@, text),
              !.ended = @ + 1]

\* res.status(code).end()
ResEnd(r, code) == [r EXCEPT !.status = code, !.ended = @ + 1]

\* res.status(result.status) and the three res.setHeader calls.
ResStreamHead(r, code) ==
    [r EXCEPT !.status = code,
              !.headers = @ \cup {<<"Content-Type", "text/event-stream">>,
                                  <<"Cache-Control", "no-cache">>,
                                  <<"Connection", "keep-alive">>}]

ErrorBody(message) == JObj(<<"error">>, <<JStr(message)>>)

\* The UUIDs crypto.randomUUID() may draw.
UUIDs == {"uuid-1", "uuid-2"}

\* if (req.method !== 'POST') return next()
PassOn ==
    /\ pc = "received"
    /\ req.method # "POST"
    /\ pc' = "done"
    /\ outcome' = "passed"
    /\ UNCHANGED <<req, model, res, calls, upstream, buffer, pending>>
    /\ UNCHANGED otherVars

\* if (!rawToken) return res.status(401).json({ error: ... })
RejectUnauthorized ==
    /\ pc = "received"
    /\ req.method = "POST"
    /\ ~Truthy(RawToken(req))
    /\ res' = ResJson(res, 401, ErrorBody("Missing Authorization header or x-goog-api-key"))
    /\ pc' = "done"
    /\ outcome' = "unauthorized"
    /\ UNCHANGED <<req, model, calls, upstream, buffer, pending>>
    /\ UNCHANGED otherVars

\* The try block raised before fetch was called: catch (err) {
\* res.status(500).json({ error: "Antigravity Interceptor Failed" }) }
BuildFails ==
    /\ pc = "received"
    /\ req.method = "POST"
    /\ Truthy(RawToken(req))
    /\ SanitizedBody(req) = Thrown
    /\ model' = ResolvedModel(req)
    /\ res' = ResJson(res, 500, ErrorBody("Antigravity Interceptor Failed"))
    /\ pc' = "done"
    /\ outcome' = "error"
    /\ UNCHANGED <<req, calls, upstream, buffer, pending>>
    /\ UNCHANGED otherVars

\* The try block up to "await fetch(targetUrl, ...)"; body.tools is
\* replaced in the request's own body object.
Dispatch ==
    /\ pc = "received"
    /\ req.method = "POST"
    /\ Truthy(RawToken(req))
    /\ \E body \in {SanitizedBody(req)} :
          /\ body # Thrown
          /\ \E id \in UUIDs : calls' = Append(calls, UpstreamCall(req, id, body))
          /\ req' = [req EXCEPT !.body = body]
    /\ model' = ResolvedModel(req)
    /\ pc' = "awaitFetch"
    /\ UNCHANGED <<res, upstream, buffer, pending, outcome>>
    /\ UNCHANGED otherVars

\* fetch rejected and the call is issued again.
FetchFailsRetrying ==
    /\ pc = "awaitFetch"
    /\ Len(calls) < 2
    /\ calls' = Append(calls, calls[Len(calls)])
    /\ UNCHANGED <<req, pc, model, res, upstream, buffer, pending, outcome>>
    /\ UNCHANGED otherVars

\* fetch rejected (the provider was not reached): the catch block.
FetchFails ==
    /\ pc = "awaitFetch"
    /\ res' = ResJson(res, 500, ErrorBody("Antigravity Interceptor Failed"))
    /\ pc' = "done"
    /\ outcome' = "error"
    /\ UNCHANGED <<req, model, calls, upstream, buffer, pending>>
    /\ UNCHANGED otherVars

\* The stream flag the handler computed before fetch: the url is unchanged
\* and body.stream is untouched by the sanitising of body.tools.
Streaming == IsStream(req)

\* if (!result.body) { res.status(result.status).end(); return }
FetchNoBody(resp) ==
    /\ pc = "awaitFetch"
    /\ ~resp.hasBody
    /\ upstream' = resp
    /\ res' = ResEnd(res, resp.status)
    /\ pc' = "done"
    /\ outcome' = "nobody"
    /\ UNCHANGED <<req, model, calls, buffer, pending>>
    /\ UNCHANGED otherVars

\* fetch resolved with a body, not streaming: on to "await result.text()".
FetchSingle(resp) ==
    /\ pc = "awaitFetch"
    /\ resp.hasBody
    /\ ~Streaming
    /\ upstream' = resp
    /\ pc' = "awaitText"
    /\ UNCHANGED <<req, model, res, calls, buffer, pending, outcome>>
    /\ UNCHANGED otherVars

\* fetch resolved with a body, streaming: status and headers are set and
\* pump() runs up to its first "await reader.read()".
FetchStream(resp) ==
    /\ pc = "awaitFetch"
    /\ resp.hasBody
    /\ Streaming
    /\ upstream' = resp
    /\ res' = ResStreamHead(res, resp.status)
    /\ buffer' = ""
    /\ pending' = ""
    /\ pc' = "streaming"
    /\ UNCHANGED <<req, model, calls, outcome>>
    /\ UNCHANGED otherVars

\* result.text() resolved: the body is unwrapped, or sent as it is.
RespondSingle ==
    /\ pc = "awaitText"
    /\ \E unwrapped \in {UnwrapText(BodyText(upstream.body))} :
          res' = IF unwrapped = Thrown
                 THEN ResSend(res, upstream.status, BodyText(upstream.body))
                 ELSE ResJson(res, upstream.status, unwrapped)
    /\ upstream' = [upstream EXCEPT !.pos = Len(upstream.body)]
    /\ pc' = "done"
    /\ outcome' = "single"
    /\ UNCHANGED <<req, model, calls, buffer, pending>>
    /\ UNCHANGED otherVars

\* result.text() rejected and the upstream call is awaited once more.
TextFailsRetrying ==
    /\ pc = "awaitText"
    /\ pc' = "awaitFetch"
    /\ UNCHANGED <<req, model, res, calls, upstream, buffer, pending, outcome>>
    /\ UNCHANGED otherVars

\* result.text() rejected (the body could not be read): the catch block.
TextFails ==
    /\ pc = "awaitText"
    /\ res' = ResJson(res, 500, ErrorBody("Antigravity Interceptor Failed"))
    /\ pc' = "done"
    /\ outcome' = "error"
    /\ UNCHANGED <<req, model, calls, upstream, buffer, pending>>
    /\ UNCHANGED otherVars

\* reader.read() resolved with the next n bytes: one iteration of pump's loop.
ReadChunk ==
    /\ pc = "streaming"
    /\ \E n \in 1..(Len(upstream.body) - upstream.pos) :
          /\ \E st \in {OnChunk([buffer |-> buffer, pending |-> pending,
                                 writes |-> res.writes],
                                SubSeq(upstream.body, upstream.pos + 1,
                                       upstream.pos + n))} :
                /\ buffer' = st.buffer
                /\ pending' = st.pending
                /\ res' = [res EXCEPT !.writes = st.writes]
          /\ upstream' = [upstream EXCEPT !.pos = @ + n]
    /\ UNCHANGED <<req, pc, model, calls, outcome>>
    /\ UNCHANGED otherVars

\* reader.read() resolved with done: the remaining buffer is flushed and the
\* response ended.
ReadDone ==
    /\ pc = "streaming"
    /\ upstream.pos = Len(upstream.body)
    /\ res' = [res EXCEPT
                 !.writes = OnEnd([buffer |-> buffer, pending |-> pending,
                                   writes |-> res.writes]).writes,
                 !.ended = @ + 1]
    /\ pc' = "done"
    /\ outcome' = "streamed"
    /\ UNCHANGED <<req, model, calls, upstream, buffer, pending>>
    /\ UNCHANGED otherVars

\* reader.read() rejected and the error is only logged.
ReadFailsSilently ==
    /\ pc = "streaming"
    /\ pc' = "done"
    /\ outcome' = "streamError"
    /\ UNCHANGED <<req, model, res, calls, upstream, buffer, pending>>
    /\ UNCHANGED otherVars

\* reader.read() rejected: catch (e) { console.error(...); res.end() }
ReadFails ==
    /\ pc = "streaming"
    /\ res' = [res EXCEPT !.ended = @ + 1]
    /\ pc' = "done"
    /\ outcome' = "streamError"
    /\ UNCHANGED <<req, model, calls, upstream, buffer, pending>>
    /\ UNCHANGED otherVars

\* The client disconnects while the response is streamed.  The handler
\* registers no 'close' listener on req or res and pump never calls
\* reader.cancel(): nothing of the handler runs.
ClientCloses ==
    /\ pc = "streaming"
    /\ ~res.closed
    /\ res' = [res EXCEPT !.closed = TRUE]
    /\ UNCHANGED <<req, pc, model, calls, upstream, buffer, pending, outcome>>
    /\ UNCHANGED otherVars

(***************************************************************************)
(* The requests and upstream responses the exchange is checked on.         *)
(***************************************************************************)

\* A body { model, tools, stream } holding the fields that are not JUndef.
MkBody(m, tools, stream) ==
    LET b1 == IF m = JUndef THEN EmptyObj ELSE ObjSet(EmptyObj, "model", m)
        b2 == IF tools = JUndef THEN b1 ELSE ObjSet(b1, "tools", tools)
    IN  IF stream = JUndef THEN b2 ELSE ObjSet(b2, "stream", stream)

\* tools: [{input_schema: {anyOf: [{type: "null"},
\*                                 {type: "object", properties: {x: {type: "string"}}}]}}]
ScenarioTools ==
    JsonParse("[{\"input_schema\":{\"anyOf\":[{\"type\":\"null\"},{\"type\":\"object\",\"properties\":{\"x\":{\"type\":\"string\"}}}]}}]")

\* tools whose union holds a JSON null alternative.
NullAlternativeTools ==
    JsonParse("[{\"input_schema\":{\"anyOf\":[null,{\"type\":\"string\"}]}}]")

Urls ==
    {"/v1beta/models/gemini-3-pro:generateContent",
     "/v1beta/models/claude-sonnet-4-6:streamGenerateContent?alt=sse",
     "/v1/chat",
     "/v1beta/models/constructor:generateContent"}

BodyModels ==
    {JUndef, JStr("gemini-3.1-pro"), JStr("gemini-2.5-flash-thinking"),
     JStr("antigravity-latest"), JStr("claude-opus-4-6-thinking"),
     JStr("Gemini-3.1-Pro"), JStr("gemini-3.1"), JStr("toString")}

BodyTools == {JUndef, ScenarioTools, NullAlternativeTools}

BodyStreams == {JUndef, JBool(TRUE), JStr("true")}

GoogKeys == {JUndef, JStr("goog-key"), JStr("")}

Authorizations == {JUndef, JStr("Bearer tok"), JStr("Bearer "), JStr("Basic xyz")}

Post(u, k, a, b) ==
    [method |-> "POST", url |-> u, xGoogKey |-> k, authorization |-> a, body |-> b]

\* Every credential combination, on one url.
CredentialRequests ==
    {Post("/v1/chat", k, a, b) :
        k \in GoogKeys, a \in Authorizations,
        b \in {JUndef, MkBody(JStr("gemini-3.1-pro"), ScenarioTools, JUndef)}}

\* Every url with every body model.
ModelRequests ==
    {Post(u, JUndef, JStr("Bearer tok"), MkBody(m, JUndef, JUndef)) :
        u \in Urls, m \in BodyModels}

\* Tools and the stream flag, for a model of each family.
ToolRequests ==
    {Post(u, JStr("goog-key"), JUndef, MkBody(m, t, st)) :
        u \in {"/v1/chat", "/v1beta/models/claude-sonnet-4-6:streamGenerateContent?alt=sse"},
        m \in {JStr("gemini-3.1-pro"), JStr("claude-opus-4-6-thinking")},
        t \in BodyTools, st \in BodyStreams}

Requests ==
    CredentialRequests \cup ModelRequests \cup ToolRequests
    \cup {[method |-> "GET", url |-> "/v1/chat", xGoogKey |-> JUndef,
           authorization |-> JStr("Bearer tok"), body |-> JUndef]}

\* Upstream answers without a body.
BodilessResponses == {[status |-> 204, hasBody |-> FALSE, body |-> "", pos |-> 0]}

Statuses == {200, 429}

\* Bodies of answers to generateContent.
SingleBodies ==
    {"{\"response\":{\"a\":1}}", "{\"a\":1}", "{\"notResponse\":{\"a\":1}}",
     "{\"response\":[1]}", "{\"response\":\"s\"}", "{\"response\":7}",
     "{\"response\":true}", "{\"response\":0}", "{\"response\":\"\"}",
     "{\"response\":false}", "{\"response\":null}", "null", "not-json", "[1]",
     "{\"error\": 7}"}

\* Bodies of answers to streamGenerateContent.
StreamBodies ==
    {"data: {\"response\":{\"a\":1}}\n\n",
     "data: {\"response\":0}\r\n: c\ndata: x",
     "{\"error\":7}"}

SingleResponses ==
    {[status |-> c, hasBody |-> TRUE, body |-> b, pos |-> 0] :
        c \in Statuses, b \in SingleBodies}

StreamResponses ==
    {[status |-> c, hasBody |-> TRUE, body |-> b, pos |-> 0] :
        c \in Statuses, b \in StreamBodies}

Init ==
    /\ req \in Requests
    /\ pc = "received"
    /\ model = JUndef
    /\ res = FreshRes
    /\ calls = <<>>
    /\ upstream = NoResponse
    /\ buffer = ""
    /\ pending = ""
    /\ outcome = ""
    /\ schema = JUndef
    /\ sanitized = NotSanitized
    /\ suspended = NoExchange
    /\ CliIdle

Next ==
    \/ PassOn
    \/ RejectUnauthorized
    \/ BuildFails
    \/ Dispatch
    \/ FetchFails
    \/ \E resp \in BodilessResponses : FetchNoBody(resp)
    \/ \E resp \in SingleResponses : FetchSingle(resp)
    \/ \E resp \in StreamResponses : FetchStream(resp)
    \/ RespondSingle
    \/ TextFails
    \/ ReadChunk
    \/ ReadDone
    \/ ReadFails

Spec == Init /\ [][Next]_vars

\* Every await settles (the upstream call returns or fails, every read of the
\* body returns, ends or fails) and the runtime then runs the continuation:
\* weak fairness of Next.  Next is enabled exactly while pc # "done" (fetch,
\* result.text() and reader.read() can each reject, and the four cases at
\* "received" are exhaustive), and a step of [Next]_vars that changes vars is
\* a step of Next; WF_vars(Next) is written out with these.
Settles == []<>(pc = "done") \/ []<><<TRUE>>_vars

SpecLive == Init /\ [][Next]_vars /\ Settles

(***************************************************************************)
(* The streamed exchange on its own: one streaming request whose fetch is  *)
(* in flight, answered by every body made of a few stream pieces and read  *)
(* in every split.                                                         *)
(***************************************************************************)

MaxPieces == 2

\* The input of the spec's reassembly example.
StreamExample == "data: {\"response\":{\"a\":1}}\n\n"

\* Pieces of an upstream SSE body: a wrapped frame, the blank line ending a
\* frame, a malformed frame with white space before its CRLF, a comment
\* line, a frame the body ends in without a newline, a two-byte character
\* on a line, and a lead byte whose continuation is missing.
StreamPieces ==
    {"data: {\"response\":{\"a\":1}}\n", "\n", "data: x \r\n", ": c\n", "data: 7",
     LeadByte \o ContByte \o "\n", LeadByte}

RECURSIVE PiecesJoined(_)
\* The bodies made of at most n pieces.
PiecesJoined(n) ==
    IF n = 0 THEN {""}
    ELSE PiecesJoined(n - 1)
         \cup {b \o p : b \in PiecesJoined(n - 1), p \in StreamPieces}

StreamInputs ==
    {[status |-> 200, hasBody |-> TRUE, body |-> b, pos |-> 0] :
        b \in PiecesJoined(MaxPieces)}

StreamRequest ==
    Post("/v1beta/models/claude-sonnet-4-6:streamGenerateContent?alt=sse",
         JStr("goog-key"), JUndef, MkBody(JUndef, JUndef, JUndef))

\* The handler awaiting the fetch it issued for StreamRequest.
InitStream ==
    /\ req = StreamRequest
    /\ pc = "awaitFetch"
    /\ model = ResolvedModel(StreamRequest)
    /\ res = FreshRes
    /\ calls = <<UpstreamCall(StreamRequest, "uuid-1", SanitizedBody(StreamRequest))>>
    /\ upstream = NoResponse
    /\ buffer = ""
    /\ pending = ""
    /\ outcome = ""
    /\ schema = JUndef
    /\ sanitized = NotSanitized
    /\ suspended = NoExchange
    /\ CliIdle

NextStream ==
    \/ \E resp \in StreamInputs : FetchStream(resp)
    \/ ReadChunk
    \/ ReadDone
    \/ ReadFails
    \/ ClientCloses

SpecStream == InitStream /\ [][NextStream]_vars

(***************************************************************************)
(* Two exchanges in flight.  Every variable the handler and pump use is a  *)
(* local of one invocation of the middleware (the module-level values      *)
(* MODEL_MAP and the key sets are never written), so an exchange waiting   *)
(* at an await keeps its own req, res, model, buffer and decoder.          *)
(***************************************************************************)

\* The exchange the handler is running.
Running ==
    [req |-> req, pc |-> pc, model |-> model, res |-> res, calls |-> calls,
     upstream |-> upstream, buffer |-> buffer, pending |-> pending,
     outcome |-> outcome]

\* An exchange whose buffer is the running exchange's: `buffer` as a
\* variable of the module and not of the handler.
SwitchSharingBuffer ==
    /\ suspended # NoExchange
    /\ suspended' = Running
    /\ req' = suspended.req
    /\ pc' = suspended.pc
    /\ model' = suspended.model
    /\ res' = suspended.res
    /\ calls' = suspended.calls
    /\ upstream' = suspended.upstream
    /\ pending' = suspended.pending
    /\ outcome' = suspended.outcome
    /\ UNCHANGED buffer
    /\ UNCHANGED sanitizerVars
    /\ UNCHANGED cliVars

\* The running exchange waits at an await (or is over) and the event loop
\* runs the next step of the other exchange.
Switch ==
    /\ suspended # NoExchange
    /\ suspended' = Running
    /\ req' = suspended.req
    /\ pc' = suspended.pc
    /\ model' = suspended.model
    /\ res' = suspended.res
    /\ calls' = suspended.calls
    /\ upstream' = suspended.upstream
    /\ buffer' = suspended.buffer
    /\ pending' = suspended.pending
    /\ outcome' = suspended.outcome
    /\ UNCHANGED sanitizerVars
    /\ UNCHANGED cliVars

\* A request that is answered in one piece, with tools to sanitise.
SingleRequest ==
    Post("/v1/chat", JStr("goog-key"), JUndef,
         MkBody(JStr("claude-opus-4-6-thinking"), ScenarioTools, JUndef))

PairRequests == {StreamRequest, SingleRequest}

\* Upstream answers: a line followed by an unterminated frame, and a
\* two-byte character on a line.
PairAnswers ==
    {[status |-> 200, hasBody |-> TRUE, body |-> ": c\ndata: 7", pos |-> 0],
     [status |-> 429, hasBody |-> TRUE, body |-> LeadByte \o ContByte \o "\n",
      pos |-> 0]}

\* An exchange as it arrives.
Arrived(r) ==
    [req |-> r, pc |-> "received", model |-> JUndef, res |-> FreshRes,
     calls |-> <<>>, upstream |-> NoResponse, buffer |-> "", pending |-> "",
     outcome |-> ""]

InitPair ==
    /\ \E r \in PairRequests :
          /\ req = r
          /\ pc = "received"
          /\ model = JUndef
          /\ res = FreshRes
          /\ calls = <<>>
          /\ upstream = NoResponse
          /\ buffer = ""
          /\ pending = ""
          /\ outcome = ""
    /\ suspended \in {Arrived(r) : r \in PairRequests}
    /\ CliIdle
    /\ schema = JUndef
    /\ sanitized = NotSanitized

NextPair ==
    \/ Dispatch
    \/ FetchFails
    \/ \E resp \in PairAnswers : FetchSingle(resp)
    \/ \E resp \in PairAnswers : FetchStream(resp)
    \/ RespondSingle
    \/ TextFails
    \/ ReadChunk
    \/ ReadDone
    \/ ReadFails
    \/ Switch

SpecPair == InitPair /\ [][NextPair]_vars

(***************************************************************************)
(* sanitizeSchema on its own: called once, for either family, on every     *)
(* tree of a bounded set of schema trees.                                  *)
(***************************************************************************)

MaxAlternatives == 2

\* The alternatives of a union: JSON null, a string, the null type, a
\* string type, an empty type, an object type, a node a strict target
\* strips a key of, and a node that is a union itself.
Alternatives ==
    {JNull, JStr("ab"),
     JObj(<<"type">>, <<JStr("null")>>),
     JObj(<<"type", "minLength">>, <<JStr("string"), JNum(1)>>),
     JObj(<<"type">>, <<JStr("")>>),
     JObj(<<"type", "properties">>,
          <<JStr("object"), JObj(<<"x">>, <<JObj(<<"type">>, <<JStr("string")>>)>>)>>),
     JObj(<<"title", "maxItems">>, <<JStr("t"), JStr("3")>>),
     JObj(<<"anyOf">>,
          <<JArr(<<JObj(<<"type">>, <<JStr("null")>>),
                   JObj(<<"type", "format">>, <<JStr("string"), JStr("date")>>)>>)>>)}

RECURSIVE AlternativeLists(_)
\* The arrays of at most n alternatives.
AlternativeLists(n) ==
    IF n = 0 THEN {<<>>}
    ELSE AlternativeLists(n - 1)
         \cup {Append(l, a) : l \in AlternativeLists(n - 1), a \in Alternatives}

\* The keys a node has beside its unions.
Bases ==
    {EmptyObj,
     JObj(<<"maxLength">>, <<JStr("10")>>),
     JObj(<<"maxLength">>, <<JStr("abc")>>),
     JObj(<<"maxLength">>, <<JStr("")>>),
     JObj(<<"minimum">>, <<JStr(" -7 ")>>),
     JObj(<<"title", "pattern", "default">>, <<JStr("10"), JStr("10"), JStr("5")>>),
     JObj(<<"properties">>, <<EmptyObj>>),
     JObj(<<"properties">>, <<JNull>>),
     JObj(<<"type", "minItems">>, <<JStr("array"), JNum(2)>>)}

\* Nodes: a base alone, with one union, or with both (one alternative each
\* at most).
SchemaNodes ==
    Bases
    \cup {ObjSet(b, key, JArr(l)) :
             b \in Bases, key \in {"anyOf", "oneOf"}, l \in AlternativeLists(MaxAlternatives)}
    \cup {ObjSet(ObjSet(b, "anyOf", JArr(l)), "oneOf", JArr(m)) :
             b \in Bases, l \in AlternativeLists(1), m \in AlternativeLists(1)}

\* Trees: a node, a node as a tool's input_schema, a node in an array, a
\* base as a function's parameters.
\* A tool whose parameters are named title, format and x, and one whose only
\* parameter is named default.
ParameterTrees ==
    {JObj(<<"name", "input_schema">>,
          <<JStr("create_issue"),
            JObj(<<"type", "properties", "required">>,
                 <<JStr("object"),
                   JObj(<<"title", "format", "x">>,
                        <<JObj(<<"type">>, <<JStr("string")>>),
                          JObj(<<"type">>, <<JStr("string")>>),
                          JObj(<<"type", "format">>, <<JStr("string"), JStr("date")>>)>>),
                   JArr(<<JStr("title")>>)>>)>>),
     JObj(<<"type", "properties">>,
          <<JStr("object"),
            JObj(<<"default">>, <<JObj(<<"type">>, <<JStr("boolean")>>)>>)>>)}

SchemaTrees ==
    SchemaNodes
    \cup {JObj(<<"input_schema">>, <<n>>) : n \in SchemaNodes}
    \cup {JArr(<<n>>) : n \in SchemaNodes}
    \cup {JObj(<<"parameters">>, <<b>>) : b \in Bases}
    \cup ParameterTrees

\* No request is being handled.
NoRequest ==
    [method |-> "", url |-> "", xGoogKey |-> JUndef, authorization |-> JUndef,
     body |-> JUndef]

\* sanitizeSchema(schema, isClaudeModel) is called.
Sanitize(isClaudeModel) ==
    /\ ~sanitized.done
    /\ \E before \in {Store(<<>>, schema)} :
       \E after \in {SanitizeAt(before.h, before.r, isClaudeModel)} :
           sanitized' = [done |-> TRUE, isClaudeModel |-> isClaudeModel,
                         out |-> sanitizeSchema(schema, isClaudeModel),
                         heap |-> IF after = Thrown THEN before.h ELSE after.h,
                         ref |-> IF after = Thrown THEN JUndef ELSE after.r]
    /\ UNCHANGED schema
    /\ UNCHANGED handlerVars
    /\ UNCHANGED cliVars

InitSan ==
    /\ schema \in SchemaTrees
    /\ sanitized = NotSanitized
    /\ suspended = NoExchange
    /\ CliIdle
    /\ req = NoRequest
    /\ pc = "idle"
    /\ model = JUndef
    /\ res = FreshRes
    /\ calls = <<>>
    /\ upstream = NoResponse
    /\ buffer = ""
    /\ pending = ""
    /\ outcome = ""

NextSan == \E isClaudeModel \in BOOLEAN : Sanitize(isClaudeModel)

SpecSan == InitSan /\ [][NextSan]_vars

(***************************************************************************)
(* Properties of the streamed exchange (SpecStream).                       *)
(***************************************************************************)

\* The upstream bytes read so far.
Received == SubSeq(upstream.body, 1, upstream.pos)

\* pump's state had the bytes come in a single read.
OneRead(bytes) == OnChunk([buffer |-> "", pending |-> "", writes |-> <<>>], bytes)

RECURSIVE CompleteLines(_)
\* The newline-terminated lines of text, without their "\n", in order.
CompleteLines(text) ==
    IF IndexOf(text, "\n") = 0 THEN <<>>
    ELSE <<SubSeq(text, 1, IndexOf(text, "\n") - 1)>>
         \o CompleteLines(From(text, IndexOf(text, "\n") + 1))

\* The input lines completed so far.
LinesReceived == CompleteLines(Utf8Decode(Received, "").text)

\* The number of "\n" in text.
Newlines(text) == Len(CompleteLines(text))

\* C1: the client output depends on the concatenation of the upstream chunks
\* only.  After any reads pump's buffer, decoder state and writes are those
\* of a single read of the same bytes; a stream read to its end has written
\* the bytes a single read followed by the end would have; and the
\* reassembly example yields exactly data: {"a":1}\n\n.
C1_SplitIndependent ==
    /\ pc = "streaming" =>
          [buffer |-> buffer, pending |-> pending, writes |-> res.writes]
              = OneRead(Received)
    /\ outcome = "streamed" =>
          Concat(res.writes) = Concat(OnEnd(OneRead(upstream.body)).writes)
    /\ outcome = "streamed" /\ upstream.body = StreamExample =>
          Concat(res.writes) = "data: {\"a\":1}\n\n"

\* A read ended between the two bytes of a character and the next read
\* brought the second: the line was written with the character whole.
C1_Witness ==
    /\ pc = "streaming"
    /\ upstream.body = LeadByte \o ContByte \o "\n" \o LeadByte
    /\ upstream.pos = 3
    /\ buffer = ""
    /\ pending = ""
    /\ res.writes = <<TwoByteChar \o "\n">>

\* C4: one output line is emitted for each newline-terminated input line, in
\* the order the input lines were completed.  While the stream is read the
\* writes are as many as the lines completed, the i-th write is what the
\* i-th line transcodes to, and each write is one line: it holds a single
\* "\n", at its end.  When the reads end these writes are still the first
\* ones of the response.
C4_OneLinePerLine ==
    (pc = "streaming" \/ outcome \in {"streamed", "streamError"}) =>
        /\ pc = "streaming" => Len(res.writes) = Len(LinesReceived)
        /\ Len(res.writes) >= Len(LinesReceived)
        /\ \A i \in 1..Len(LinesReceived) :
              /\ res.writes[i] = TranscodeLine(TrimEnd(LinesReceived[i]))
              /\ Newlines(res.writes[i]) = 1
              /\ Char(res.writes[i], Len(res.writes[i])) = "\n"

\* A blank line and a comment line went through, in that order.
C4_Witness ==
    /\ outcome = "streamed"
    /\ LinesReceived = <<"", ": c">>
    /\ res.writes = <<"\n", ": c\n">>

\* A data line (white space at its end removed) whose remainder JSON.parse
\* rejects.
Malformed(line) ==
    /\ StartsWith(TrimEnd(line), "data: ")
    /\ JsonParse(From(TrimEnd(line), 7)) = Thrown

\* C5 (as stated): a line that starts with "data: " and whose remainder is
\* not valid JSON is written as the same line followed by a newline.
C5_Original ==
    \A i \in 1..Len(LinesReceived) :
        (pc = "streaming" \/ outcome = "streamed") /\ Malformed(LinesReceived[i]) =>
            res.writes[i] = LinesReceived[i] \o "\n"

\* C5 (amended): a line that starts with "data: " and whose remainder is not
\* valid JSON is written as that line without the white space at its end,
\* followed by a newline; the stream goes on, every later line being
\* written by the normal rules.
C5_MalformedPassesTrimmed ==
    \A i \in 1..Len(LinesReceived) :
        (pc = "streaming" \/ outcome = "streamed") /\ Malformed(LinesReceived[i]) =>
            /\ res.writes[i] = TrimEnd(LinesReceived[i]) \o "\n"
            /\ Len(res.writes) >= Len(LinesReceived)
            /\ \A j \in (i + 1)..Len(LinesReceived) :
                  res.writes[j] = TranscodeLine(TrimEnd(LinesReceived[j]))

\* The malformed frame went through and the frame after it was unwrapped.
C5_Witness ==
    /\ outcome = "streamed"
    /\ upstream.body = "data: x \r\n" \o "data: {\"response\":{\"a\":1}}\n"
    /\ res.writes = <<"data: x\n", "data: {\"a\":1}\n">>

(***************************************************************************)
(* Properties of the handler (Spec).                                       *)
(***************************************************************************)

\* The upstream body of a finished non-stream exchange, parsed.
ParsedBody == JsonParse(BodyText(upstream.body))

\* C2 (as stated): unwrapping returns the value under the payload's
\* "response" key whenever the payload has that key, whatever the value, and
\* the payload itself when it has no such key.  Here for the parsed body of
\* a non-stream exchange, which the handler answers with res.json.
C2_Original ==
    outcome = "single" /\ ParsedBody # Thrown /\ ParsedBody.t = "obj" =>
        res.writes = <<JsonStringify(IF HasKey(ParsedBody, "response")
                                     THEN Get(ParsedBody, "response")
                                     ELSE ParsedBody)>>

\* C3: a POST request with neither the x-goog-api-key nor the Authorization
\* header never gets past the credential check: no upstream call is ever
\* made for it, and its answer is status 401 with a JSON error body.
C3_MissingCredentials ==
    req.method = "POST" /\ req.xGoogKey = JUndef /\ req.authorization = JUndef =>
        /\ calls = <<>>
        /\ pc \in {"received", "done"}
        /\ pc = "done" =>
              /\ outcome = "unauthorized"
              /\ res.status = 401
              /\ res.ended = 1
              /\ <<"Content-Type", "application/json">> \in res.headers
              /\ Len(res.writes) = 1
              /\ JsonParse(res.writes[1]).t = "obj"
              /\ HasKey(JsonParse(res.writes[1]), "error")

\* A request with a body but without credentials was answered.
C3_Witness ==
    /\ req.method = "POST"
    /\ req.xGoogKey = JUndef
    /\ req.authorization = JUndef
    /\ req.body # JUndef
    /\ pc = "done"
    /\ res.status = 401

\* The body of the spec's end-to-end scenario.
ScenarioBody == MkBody(JStr("gemini-3.1-pro"), ScenarioTools, JUndef)

\* request.tools[0].input_schema of the envelope of an upstream call.
EnvelopeInputSchema(call) ==
    Get(Get(Get(call.body, "request"), "tools").a[1], "input_schema")

\* The second alternative of the scenario's union.
ObjectAlternative == Get(EnvelopeInputSchema([body |-> JObj(<<"request">>, <<ScenarioBody>>)]),
                         "anyOf").a[2]

\* C6 (as stated): for the scenario's body the envelope carries the mapped
\* model, and request.tools[0].input_schema has no anyOf key, has type
\* "object" and retains properties.x.
C6_Original ==
    [][pc = "received" /\ req.body = ScenarioBody /\ pc' = "awaitFetch" =>
          /\ Get(calls'[1].body, "model") = JStr("gemini-3.1-pro-low")
          /\ ~HasKey(EnvelopeInputSchema(calls'[1]), "anyOf")
          /\ Get(EnvelopeInputSchema(calls'[1]), "type") = JStr("object")
          /\ Get(EnvelopeInputSchema(calls'[1]), "properties")
                 = Get(ObjectAlternative, "properties")]_vars

\* C6 (amended): for the scenario's body on a url without a model segment
\* the envelope carries the mapped model, gemini-3.1-pro-low; that name does
\* not hold "claude", so the union is not collapsed: input_schema keeps its
\* anyOf array as it was (properties.x inside the second alternative), has
\* no properties of its own and gains type "object".  On a url that names a
\* claude model the same body gives an input_schema that is the object
\* alternative: no anyOf, type "object", properties.x retained.
C6_ScenarioEnvelope ==
    [][pc = "received" /\ req.body = ScenarioBody /\ pc' = "awaitFetch" =>
          IF UrlModelFrom(req.url, 1) = ""
          THEN /\ Get(calls'[1].body, "model") = JStr("gemini-3.1-pro-low")
               /\ EnvelopeInputSchema(calls'[1])
                      = JObj(<<"anyOf", "type">>,
                             <<Get(Get(ScenarioTools.a[1], "input_schema"), "anyOf"),
                               JStr("object")>>)
          ELSE Includes(Get(calls'[1].body, "model").s, "claude") =>
                  EnvelopeInputSchema(calls'[1]) = ObjectAlternative]_vars

\* The scenario's request was dispatched with the union still in place.
C6_Witness ==
    /\ pc = "awaitFetch"
    /\ req.url = "/v1/chat"
    /\ HasKey(req.body, "tools")
    /\ Get(req.body, "model") = JStr("gemini-3.1-pro")
    /\ Get(calls[1].body, "model") = JStr("gemini-3.1-pro-low")
    /\ HasKey(EnvelopeInputSchema(calls[1]), "anyOf")
    /\ Get(EnvelopeInputSchema(calls[1]), "anyOf").a[2] = ObjectAlternative

\* C9 (as stated): resolution gives the mapped name for each key of the
\* mapping table and its argument unchanged for every other string.  Here
\* for the model the handler resolved from the requested one.
C9_Original ==
    model # JUndef /\ RequestedModel(req).t = "str" =>
        model = IF HasKey(MODEL_MAP, RequestedModel(req).s)
                THEN MODEL_MAP.v[KeyIndex(MODEL_MAP.k, RequestedModel(req).s)]
                ELSE RequestedModel(req)

(***************************************************************************)
(* Properties of sanitizeSchema (SpecSan).                                 *)
(***************************************************************************)

\* C7 (as stated): sanitising is idempotent for both families:
\* sanitize(sanitize(s, f), f) = sanitize(s, f).
C7_Original ==
    sanitized.done /\ sanitized.out # Thrown =>
        sanitizeSchema(sanitized.out, sanitized.isClaudeModel) = sanitized.out

\* The tree is an object whose only union is an array under key.
OnlyUnion(key) ==
    /\ schema.t = "obj"
    /\ HasKey(schema, key)
    /\ Get(schema, key).t = "arr"
    /\ ~HasKey(schema, IF key = "anyOf" THEN "oneOf" ELSE "anyOf")

\* The positions of the alternatives whose type is not "null".
NotNullTyped(alts) == {i \in 1..Len(alts) : Get(alts[i], "type") # JStr("null")}

\* The first alternative whose type is not "null", sanitised.
FirstNotNull(alts) ==
    sanitizeSchema(alts[CHOOSE i \in NotNullTyped(alts) :
                            \A j \in NotNullTyped(alts) : i <= j], TRUE)

\* The union rule for the tree's union under key, as C8 states it.
UnionRule(key) ==
    sanitized.done /\ OnlyUnion(key) =>
        /\ sanitized.out # Thrown
        /\ IF sanitized.isClaudeModel /\ NotNullTyped(Get(schema, key).a) # {}
           THEN /\ ~HasKey(sanitized.out, key)
                /\ FirstNotNull(Get(schema, key).a).t = "obj" =>
                      \A i \in 1..Len(FirstNotNull(Get(schema, key).a).k) :
                          Get(sanitized.out, FirstNotNull(Get(schema, key).a).k[i])
                              = FirstNotNull(Get(schema, key).a).v[i]
           ELSE Get(sanitized.out, key)
                    = sanitizeSchema(Get(schema, key), sanitized.isClaudeModel)

\* C8 (as stated): for a strict target a node with an anyOf (or oneOf) array
\* holding an alternative whose type is not "null" loses the union key and
\* receives the keys of the first such alternative, the alternative's value
\* winning; with only "null" alternatives the union stays in place; for a
\* permissive target the union is never collapsed.
C8_Original == UnionRule("anyOf") /\ UnionRule("oneOf")

\* A text that represents a number: an optionally signed run of digits,
\* white space around it allowed.
RepresentsNumber(text) ==
    LET digs == IF Char(Trim(text), 1) \in {"-", "+"} THEN From(Trim(text), 2)
                ELSE Trim(text)
    IN  Len(digs) >= 1 /\ AllDigits(digs)

\* The number such a text represents.
NumberOf(text) ==
    IF Char(Trim(text), 1) = "-" THEN 0 - DigitsToNat(From(Trim(text), 2), 0)
    ELSE IF Char(Trim(text), 1) = "+" THEN DigitsToNat(From(Trim(text), 2), 0)
    ELSE DigitsToNat(Trim(text), 0)

\* C10 (as stated): in both families, under a key of the numeric-constraint
\* set a string that represents a number is replaced by that number and a
\* string that does not is left as it is; strings under other keys are never
\* coerced.  Here for the keys of a tree without unions that the family
\* does not strip.
C10_Original ==
    sanitized.done /\ schema.t = "obj"
        /\ ~HasKey(schema, "anyOf") /\ ~HasKey(schema, "oneOf") =>
        \A i \in 1..Len(schema.k) :
            schema.v[i].t = "str"
                /\ ~(sanitized.isClaudeModel /\ schema.k[i] \in DISALLOWED_SCHEMA_KEYS) =>
                Get(sanitized.out, schema.k[i])
                    = IF schema.k[i] \in NUMERIC_SCHEMA_KEYS
                         /\ RepresentsNumber(schema.v[i].s)
                      THEN JNum(NumberOf(schema.v[i].s))
                      ELSE schema.v[i]

RECURSIVE ObjectNodes(_)
\* The object nodes of a tree, at every depth.
ObjectNodes(x) ==
    IF x.t = "obj"
    THEN {x} \cup UNION {ObjectNodes(x.v[i]) : i \in 1..Len(x.v)}
    ELSE IF x.t = "arr" THEN UNION {ObjectNodes(x.a[i]) : i \in 1..Len(x.a)}
    ELSE {}

\* C11 (as stated): in every tree the sanitizer returns, each object node
\* with a properties key has a type key, and each object that is the value
\* of a parameters or input_schema key has a type key; where the input node
\* lacked type the value added is "object".
C11_Original ==
    sanitized.done /\ sanitized.out # Thrown =>
        /\ \A n \in ObjectNodes(sanitized.out) :
              /\ HasKey(n, "properties") => HasKey(n, "type")
              /\ \A key \in {"parameters", "input_schema"} :
                    HasKey(n, key) /\ Get(n, key).t = "obj" =>
                        HasKey(Get(n, key), "type")
        /\ schema.t = "obj" /\ HasKey(schema, "properties") /\ ~HasKey(schema, "type")
              /\ ~HasKey(schema, "anyOf") /\ ~HasKey(schema, "oneOf") =>
              Get(sanitized.out, "type") = JStr("object")

KeysOf(x) == UNION {{n.k[i] : i \in 1..Len(n.k)} : n \in ObjectNodes(x)}

\* The node has a union the strict collapse replaces or may replace.
HasUnion(n) == HasKey(n, "anyOf") \/ HasKey(n, "oneOf")

RECURSIVE Retained(_, _, _)
\* Every key of every node of tree in, but for the keys the family strips,
\* is a key of the node at the same place in tree out.  Below a node with a
\* union the strict collapse rebuilds the node, so the comparison stops
\* there for the strict family.
Retained(in, out, strict) ==
    IF in.t = "obj"
    THEN /\ out.t = "obj"
         /\ \A i \in 1..Len(in.k) :
               \/ strict /\ in.k[i] \in DISALLOWED_SCHEMA_KEYS \cup {"anyOf", "oneOf"}
               \/ /\ HasKey(out, in.k[i])
                  /\ \/ strict /\ HasUnion(in)
                     \/ Retained(in.v[i], Get(out, in.k[i]), strict)
    ELSE IF in.t = "arr"
    THEN /\ out.t = "arr"
         /\ Len(out.a) = Len(in.a)
         /\ \A i \in 1..Len(in.a) : Retained(in.a[i], out.a[i], strict)
    ELSE TRUE

C13_WitnessPermissive ==
    /\ sanitized.done
    /\ ~sanitized.isClaudeModel
    /\ schema = JObj(<<"title", "pattern", "default">>,
                     <<JStr("10"), JStr("10"), JStr("5")>>)
    /\ sanitized.out = schema


(***************************************************************************)
(* C14: the sanitiser and the tree it is given.                            *)
(***************************************************************************)

\* The heap and the reference the caller holds before the call.
Given == Store(<<>>, schema)

\* The members of a cell.
Members(cell) == IF cell.t = "obj" THEN cell.v ELSE cell.a

\* The addresses a cell refers to.
RefsOf(cell) ==
    {Members(cell)[i].at : i \in {j \in 1..Len(Members(cell)) : Members(cell)[j].t = "ref"}}

RECURSIVE ReachFrom(_, _)
\* The addresses reachable from the addresses of `seen`.
ReachFrom(h, seen) ==
    LET more == seen \cup UNION {RefsOf(h[a]) : a \in seen}
    IN  IF more = seen THEN seen ELSE ReachFrom(h, more)

\* The cells of the value r.
Cells(h, r) == IF r.t = "ref" THEN ReachFrom(h, {r.at}) ELSE {}

\* The places (cell, member) of the value r that refer to address a.
Referrers(h, r, a) ==
    UNION {{<<c, i>> : i \in {j \in 1..Len(Members(h[c])) : Members(h[c])[j] = Ref(a)}} :
              c \in Cells(h, r)}

\* C14: sanitizeSchema never changes the tree it is given, and the tree it
\* returns shares no object or array with it (nor with itself): the heap run
\* leaves every cell of the input as it was, returns the tree the function
\* returns, and every cell of that tree is new and referred to once.
C14_FreshTree ==
    sanitized.done /\ sanitized.out # Thrown =>
        /\ \A a \in 1..Len(Given.h) : sanitized.heap[a] = Given.h[a]
        /\ Deref(sanitized.heap, Given.r) = schema
        /\ Deref(sanitized.heap, sanitized.ref) = sanitized.out
        /\ Cells(sanitized.heap, sanitized.ref) \cap (1..Len(Given.h)) = {}
        /\ \A a \in Cells(sanitized.heap, sanitized.ref) :
               Cardinality(Referrers(sanitized.heap, sanitized.ref, a)) <= 1

\* A strict call that set the type of a nested input_schema and collapsed a
\* union below it.
C14_Witness ==
    /\ sanitized.done
    /\ sanitized.isClaudeModel
    /\ sanitized.out # Thrown
    /\ HasKey(schema, "input_schema")
    /\ HasUnion(Get(schema, "input_schema"))
    /\ ~HasKey(Get(schema, "input_schema"), "type")
    /\ Get(sanitized.out, "input_schema").t = "obj"
    /\ ~HasUnion(Get(sanitized.out, "input_schema"))
    /\ Cardinality(Cells(sanitized.heap, sanitized.ref)) >= 2

(***************************************************************************)
(* C15: the envelope the provider receives.                                *)
(***************************************************************************)

EnvelopeFields ==
    <<"project", "model", "requestType", "userAgent", "requestId", "request">>

\* sent is the body b with only a (truthy) tools value replaced by the
\* sanitised tools.
CarriesBody(b, sent, isClaudeModel) ==
    IF b.t # "obj" THEN sent = b
    ELSE /\ sent.t = "obj"
         /\ sent.k = b.k
         /\ \A i \in 1..Len(b.k) :
                sent.v[i] = IF b.k[i] = "tools" /\ Truthy(b.v[i])
                            THEN sanitizeSchema(b.v[i], isClaudeModel)
                            ELSE b.v[i]

\* The text of the latest call read as the provider reads it.
Envelope(sent) == JsonParse(sent[Len(sent)].payload)

\* C15 (as stated): every envelope sent upstream has exactly the fields
\* project, model, requestType, userAgent, requestId and request, model being
\* the resolved model and request the caller's body with only its tools
\* replaced by the sanitised tools.
C15_Original ==
    [][calls' # calls =>
          /\ Envelope(calls').k = EnvelopeFields
          /\ Get(Envelope(calls'), "model") = ResolvedModel(req)
          /\ CarriesBody(req.body, Get(Envelope(calls'), "request"), IsClaude(req))]_vars

\* The same for the requests that have a body.
C15_WithBody ==
    [][calls' # calls /\ req.body # JUndef =>
          /\ Envelope(calls').k = EnvelopeFields
          /\ Get(Envelope(calls'), "model") = ResolvedModel(req)
          /\ CarriesBody(req.body, Get(Envelope(calls'), "request"), IsClaude(req))]_vars

(***************************************************************************)
(* C16: the upstream action and the response path.                         *)
(***************************************************************************)

\* The url holds the marker or the body has stream equal to true.
StreamAsked ==
    \/ Includes(req.url, "streamGenerateContent")
    \/ OptGet(req.body, "stream") = JBool(TRUE)

\* C16: the call goes to streamGenerateContent?alt=sse exactly when the url
\* holds the streamGenerateContent marker or body.stream is true, and to
\* generateContent otherwise; the streamed path is taken only after a
\* streaming call and the single-response path only after a generateContent
\* call.
C16_StreamingAction ==
    /\ \A i \in 1..Len(calls) :
           calls[i].url = ANTIGRAVITY_BASE \o (IF StreamAsked
                                               THEN ":streamGenerateContent?alt=sse"
                                               ELSE ":generateContent")
    /\ pc = "streaming" \/ outcome \in {"streamed", "streamError"} =>
           calls[1].url = ANTIGRAVITY_BASE \o ":streamGenerateContent?alt=sse"
    /\ pc = "awaitText" \/ outcome = "single" =>
           calls[1].url = ANTIGRAVITY_BASE \o ":generateContent"

\* A stream asked for by the body alone was streamed.
C16_Witness ==
    /\ outcome = "streamed"
    /\ ~Includes(req.url, "streamGenerateContent")
    /\ OptGet(req.body, "stream") = JBool(TRUE)
    /\ Len(res.writes) >= 1

\* A body whose stream is the string "true" got a single response.
C16_WitnessNotTrue ==
    /\ outcome = "single"
    /\ OptGet(req.body, "stream") = JStr("true")

(***************************************************************************)
(* C17: upstream answers that are not 2xx.                                 *)
(***************************************************************************)

\* The upstream answered, with a body, and its status is not 2xx.
UpstreamRefused == upstream.hasBody /\ upstream.status \notin 200..299

\* C17 (as stated): when the upstream answers with a non-2xx status the
\* caller receives that status and the upstream body unmodified, on the
\* stream and the non-stream path, and never the gateway's own 500.
C17_Original ==
    UpstreamRefused /\ pc = "done" =>
        /\ res.status = upstream.status
        /\ outcome \in {"single", "streamed"} =>
               Concat(res.writes) = BodyText(upstream.body)

(***************************************************************************)
(* C18: a non-stream body that is not JSON.                                *)
(***************************************************************************)

\* C18: on the non-stream path, when the upstream body cannot be parsed as
\* JSON, the caller receives exactly the upstream text with the upstream
\* status, in a response ended once, and not the 500 error response.
C18_RawTextForwarded ==
    outcome = "single" /\ JsonParse(BodyText(upstream.body)) = Thrown =>
        /\ res.status = upstream.status
        /\ res.writes = <<BodyText(upstream.body)>>
        /\ res.ended = 1
        /\ res.writes # <<JsonStringify(ErrorBody("Antigravity Interceptor Failed"))>>

\* The body not-json of a 429 answer reached the caller.
C18_Witness ==
    /\ outcome = "single"
    /\ upstream.status = 429
    /\ upstream.body = "not-json"
    /\ res.status = 429
    /\ res.writes = <<"not-json">>

(***************************************************************************)
(* C19: failures of the gateway itself.                                    *)
(***************************************************************************)

\* The response is the internal-error response: status 500, a JSON error
\* body, ended once.
InternalError ==
    /\ res.status = 500
    /\ <<"Content-Type", "application/json">> \in res.headers
    /\ res.writes = <<"{\"error\":\"Antigravity Interceptor Failed\"}">>
    /\ JsonParse(res.writes[1]).t = "obj"
    /\ res.ended = 1

\* A request with a credential ended without an upstream call: building the
\* request raised.
BuildRaised ==
    pc = "done" /\ req.method = "POST" /\ Truthy(RawToken(req)) /\ calls = <<>>

\* The request ended after its call without an upstream answer: fetch
\* rejected.
TransportFailed == pc = "done" /\ Len(calls) = 1 /\ upstream = NoResponse

\* C19: when the upstream call fails at the transport level, or building or
\* dispatching the request raises, the caller receives status 500 with a JSON
\* error body; no request is ever given a second upstream call.
C19_InternalError ==
    /\ Len(calls) <= 1
    /\ BuildRaised \/ TransportFailed \/ outcome = "error" => InternalError

\* fetch rejected and the caller got the 500.
C19_Witness == TransportFailed /\ InternalError /\ outcome = "error"

\* Building the request raised and the caller got the 500.
C19_WitnessBuild == BuildRaised /\ InternalError

(***************************************************************************)
(* C20: every response is ended.                                           *)
(***************************************************************************)

\* C20: every POST that reaches the handler has its response ended exactly
\* once on every path, provided every await settles: the response is never
\* ended twice, the exchange reaches the state where it is over and stays
\* there, and when the exchange of a POST is over its response has been
\* ended once.
C20_EndedOnce ==
    /\ [](res.ended <= 1)
    /\ [](pc = "done" /\ req.method = "POST" => res.ended = 1)
    /\ <>[](pc = "done")

\* A stream whose read failed after a first chunk, ended once.
C20_Witness ==
    /\ pc = "done"
    /\ outcome = "streamError"
    /\ upstream.pos > 0
    /\ res.ended = 1

(***************************************************************************)
(* C21: an exception during stream processing.                             *)
(***************************************************************************)

\* C21 (as stated): when a read of the upstream body fails after streaming
\* has begun, the caller is given the internal-error response.
C21_Original == outcome = "streamError" => InternalError

(***************************************************************************)
(* C22: the tail of the stream.                                            *)
(***************************************************************************)

\* C22 (as stated): when the stream ends, a non-empty buffer is written once
\* by the rule for a complete line (data lines unwrapped, any other line
\* followed by a newline), after the earlier writes and before the response
\* is ended; an empty buffer writes nothing.
C22_Original ==
    [][pc = "streaming" /\ outcome' = "streamed" =>
          /\ res'.writes = res.writes \o (IF buffer = "" THEN <<>>
                                          ELSE <<TranscodeLine(buffer)>>)
          /\ res'.ended = res.ended + 1]_vars

(***************************************************************************)
(* C23: lines that are not data lines.                                     *)
(***************************************************************************)

\* C23: a complete line that does not start with "data: " is written as that
\* line with its trailing white space trimmed, followed by a newline, as the
\* write of its own position.
C23_OtherLinesVerbatim ==
    pc = "streaming" \/ outcome \in {"streamed", "streamError"} =>
        \A i \in 1..Len(LinesReceived) :
            ~StartsWith(LinesReceived[i], "data: ") =>
                /\ i <= Len(res.writes)
                /\ res.writes[i] = TrimEnd(LinesReceived[i]) \o "\n"

\* A comment line and the two bytes of a character on a line of their own
\* went through.
C23_Witness ==
    /\ outcome = "streamed"
    /\ upstream.body = ": c\n" \o LeadByte \o ContByte \o "\n"
    /\ res.writes = <<": c\n", TwoByteChar \o "\n">>

(***************************************************************************)
(* C26: the buffer between two reads.                                      *)
(***************************************************************************)

RECURSIVE Unterminated(_)
\* What follows the last "\n" of text.
Unterminated(text) ==
    IF IndexOf(text, "\n") = 0 THEN text
    ELSE Unterminated(From(text, IndexOf(text, "\n") + 1))

\* C26: whenever pump waits for the next chunk the buffer holds no newline:
\* it is the unterminated tail of the text received, and every complete line
\* received has been written.
C26_NoNewlineBuffered ==
    pc = "streaming" =>
        /\ ~Includes(buffer, "\n")
        /\ buffer = Unterminated(Utf8Decode(Received, "").text)
        /\ Len(res.writes) = Len(LinesReceived)

\* A line came with the start of the next: the line was written and the
\* start is held back.
C26_Witness ==
    /\ pc = "streaming"
    /\ upstream.body = ": c\n" \o "data: 7"
    /\ upstream.pos = Len(upstream.body)
    /\ res.writes = <<": c\n">>
    /\ buffer = "data: 7"

(***************************************************************************)
(* C24: the client disconnects.                                            *)
(***************************************************************************)

\* C24 (as stated): once the client has disconnected no further upstream
\* chunk is read.
C24_Original == [][res.closed => upstream'.pos = upstream.pos]_vars

(***************************************************************************)
(* C25: concurrent exchanges.                                              *)
(***************************************************************************)

\* What pump holds for exchange e had the bytes e has received come in a
\* single read.
OwnRead(e) == OneRead(SubSeq(e.upstream.body, 1, e.upstream.pos))

\* The response of exchange e while it streams and after.
OwnStream(e, ended) ==
    [ResStreamHead(FreshRes, e.upstream.status) EXCEPT
        !.writes = OwnRead(e).writes
                       \o (IF e.outcome = "streamed"
                           THEN FlushTail(OwnRead(e).buffer) ELSE <<>>),
        !.ended = ended]

\* The single response of exchange e.
OwnSingle(e) ==
    IF UnwrapText(BodyText(e.upstream.body)) = Thrown
    THEN ResSend(FreshRes, e.upstream.status, BodyText(e.upstream.body))
    ELSE ResJson(FreshRes, e.upstream.status, UnwrapText(BodyText(e.upstream.body)))

\* The call of exchange e is built from e's own request.
OwnCall(e) ==
    \E id \in UUIDs : e.calls = <<UpstreamCall(e.req, id, e.req.body)>>

\* Exchange e is as it is when it runs alone: its response, calls, buffer
\* and decoder follow from its own request and the bytes its own upstream
\* call delivered.
Alone(e) ==
    CASE e.pc = "received" ->
             e.res = FreshRes /\ e.calls = <<>> /\ e.upstream = NoResponse
      [] e.pc = "awaitFetch" ->
             e.res = FreshRes /\ OwnCall(e) /\ e.upstream = NoResponse
      [] e.pc = "awaitText" ->
             e.res = FreshRes /\ OwnCall(e)
      [] e.pc = "streaming" ->
             /\ OwnCall(e)
             /\ e.res = OwnStream(e, 0)
             /\ e.buffer = OwnRead(e).buffer
             /\ e.pending = OwnRead(e).pending
      [] e.pc = "done" /\ e.outcome = "error" ->
             /\ OwnCall(e)
             /\ e.res = ResJson(FreshRes, 500, ErrorBody("Antigravity Interceptor Failed"))
      [] e.pc = "done" /\ e.outcome = "single" ->
             OwnCall(e) /\ e.res = OwnSingle(e)
      [] e.pc = "done" /\ e.outcome \in {"streamed", "streamError"} ->
             OwnCall(e) /\ e.res = OwnStream(e, 1)
      [] OTHER -> FALSE

\* C25: under every interleaving of two exchanges each exchange's status and
\* client output, and its buffer, are those it has when it runs alone.
C25_Isolated == Alone(Running) /\ Alone(suspended)

\* One stream failed while the other, holding a partial frame, went on to
\* its end.
C25_Witness ==
    /\ suspended.outcome = "streamError"
    /\ outcome = "streamed"
    /\ upstream.body = ": c\ndata: 7"
    /\ res.writes = <<": c\n", "data: 7\n">>
    /\ suspended.upstream.pos > 0

(***************************************************************************)
(* C27: the phases of a request.                                           *)
(***************************************************************************)

\* The steps from one phase to the next: the credential check and the
\* building of the call happen at "received", the upstream call is awaited
\* at "awaitFetch", the response is single ("awaitText") or streamed
\* ("streaming", one step per chunk), and every phase can end the request.
PhaseSteps ==
    {<<"received", "awaitFetch">>, <<"received", "done">>,
     <<"awaitFetch", "awaitText">>, <<"awaitFetch", "streaming">>,
     <<"awaitFetch", "done">>, <<"awaitText", "done">>,
     <<"streaming", "streaming">>, <<"streaming", "done">>}

\* C27: a request goes through credential check, building, upstream call,
\* then one of the single and the streamed response, then done, in this
\* order; it can end in an error from any phase; nothing is done for a
\* request that is over; no call is made without a credential, and unless
\* the request ended in an error nothing is written to the client before the
\* upstream has answered.
C27_PhaseOrder ==
    /\ [][/\ <<pc, pc'>> \in PhaseSteps
          /\ pc = "received" /\ pc' = "awaitFetch" =>
                 Truthy(RawToken(req)) /\ model' # JUndef /\ Len(calls') = 1
          /\ pc = "streaming" /\ pc' = "streaming" => upstream'.pos > upstream.pos]_vars
    /\ [](pc \in {"awaitText", "streaming"} => upstream # NoResponse /\ Len(calls) = 1)
    /\ [](upstream = NoResponse /\ outcome \notin {"unauthorized", "error"} =>
              res.writes = <<>> /\ res.ended = 0)
    /\ [](outcome = "unauthorized" => calls = <<>> /\ model = JUndef)

\* A request went through every phase of the streamed path.
C27_Witness ==
    /\ pc = "done"
    /\ outcome = "streamed"
    /\ Len(calls) = 1
    /\ Len(res.writes) >= 2
    /\ upstream.pos = Len(upstream.body)

(***************************************************************************)
(* C28: which credential is forwarded.                                     *)
(***************************************************************************)

\* The token of an Authorization header: what follows "Bearer ", or the
\* header itself.
InboundToken(header) ==
    IF StartsWith(header, "Bearer ") THEN TrimStart(From(header, 8)) ELSE header

C28_WitnessAuthorization ==
    /\ req.xGoogKey = JUndef
    /\ req.authorization = JStr("Bearer tok")
    /\ Len(calls) = 1
    /\ calls[1].authorization = "Bearer tok"

(***************************************************************************)
(* Model aliases.  The aliases file is held as the value JSON.parse gives  *)
(* (JUndef without a file, Unparsable for a text JSON.parse rejects).      *)
(***************************************************************************)

\* loadAliases(): {} without a file or when parsing fails.
loadAliases(file) ==
    IF file = JUndef \/ file = Unparsable THEN EmptyObj ELSE file

\* resolveAlias(modelOrAlias): aliases[modelOrAlias] || modelOrAlias
resolveAlias(file, modelOrAlias) ==
    OrElse(Get(loadAliases(file), modelOrAlias), JStr(modelOrAlias))

\* setAlias(name, model), target being the model: the file saveAliases
\* writes.
setAlias(file, name, target) == ObjSet(loadAliases(file), name, JStr(target))

\* removeAlias(name): the file afterwards (it is written only when
\* aliases[name] is truthy).
removeAlias(file, name) ==
    IF ~Truthy(Get(loadAliases(file), name)) THEN file
    ELSE ObjDelete(loadAliases(file), name)

\* The names and models alias commands are given.
AliasNames == {"fast", "smart", "toString", ""}
AliasModels == {"copilot/gpt-4o", "gemini/gemini-2.5-pro", "fast", ""}

AliasFiles ==
    {JUndef, Unparsable, EmptyObj,
     JObj(<<"fast">>, <<JStr("copilot/gpt-4o")>>)}

\* aliasCommand(['set', name, model])
AliasSet(name, target) ==
    /\ alias' =
          IF name = "" \/ target = ""
          THEN [alias EXCEPT !.last = <<"set", name, target>>,
                             !.said = "Usage: polyclaude alias set <name> <model>"]
          ELSE [file |-> setAlias(alias.file, name, target),
                last |-> <<"set", name, target>>,
                said |-> "Alias set"]
    /\ UNCHANGED besideAlias

\* aliasCommand(['remove', name])
AliasRemove(name) ==
    /\ alias' =
          IF name = ""
          THEN [alias EXCEPT !.last = <<"remove", name>>,
                             !.said = "Usage: polyclaude alias remove <name>"]
          ELSE [file |-> removeAlias(alias.file, name),
                last |-> <<"remove", name>>,
                said |-> IF Truthy(Get(loadAliases(alias.file), name))
                         THEN "removed" ELSE "not found"]
    /\ UNCHANGED besideAlias

InitAlias ==
    /\ alias \in {[file |-> f, last |-> <<>>, said |-> ""] : f \in AliasFiles}
    /\ launch = NoLaunch
    /\ token = NoToken
    /\ auth = NoAuth
    /\ suspended = NoExchange
    /\ req = NoRequest
    /\ pc = "idle"
    /\ model = JUndef
    /\ res = FreshRes
    /\ calls = <<>>
    /\ upstream = NoResponse
    /\ buffer = ""
    /\ pending = ""
    /\ outcome = ""
    /\ schema = JUndef
    /\ sanitized = NotSanitized

NextAlias ==
    \/ \E name \in AliasNames, aliasModel \in AliasModels : AliasSet(name, aliasModel)
    \/ \E name \in AliasNames : AliasRemove(name)

SpecAlias == InitAlias /\ [][NextAlias]_vars

(***************************************************************************)
(* The default launch of the command-line tool: sync, model choice, proxy, *)
(* Claude Code, exit.  Files are held as what reading them yields: the     *)
(* settings file as the value JSON.parse gives, the .env file as its       *)
(* KEY=value lines, the LiteLLM configuration as its lines of text.        *)
(***************************************************************************)

REQUIRED_FALLBACK_MAPPINGS ==
    <<"claude-3-5-sonnet-20241022", "claude-sonnet-4-5-20250929",
      "claude-opus-4", "claude-sonnet-4", "grok-code-fast-1">>

antigravityModels ==
    <<"gemini-3.1-pro-low", "gemini-3.1-pro-high", "gemini-3-pro-low",
      "gemini-3-pro-high", "gemini-3-flash", "gemini-3.1-flash-image",
      "gemini-2.5-pro", "gemini-2.5-flash", "claude-sonnet-4-6",
      "claude-opus-4-6-thinking", "gpt-oss-120b-medium">>

geminiModels ==
    <<"gemini-1.5-pro", "gemini-1.5-flash", "gemini-2.0-flash",
      "gemini-2.5-flash", "gemini-2.5-pro", "gemini-3-pro-preview",
      "gemini-3.1-pro-preview", "gemini-3-flash-preview">>

ExtraHeaders ==
    "      extra_headers: {\"Editor-Version\": \"vscode/1.85.1\", \"Copilot-Integration-Id\": \"vscode-chat\"}"

\* What the first forEach appends for one discovered model.
CopilotEntry(id) ==
    <<"  - model_name: copilot/" \o id,
      "    litellm_params:",
      "      model: github_copilot/" \o id,
      ExtraHeaders>>

AntigravityEntry(id, antigravityAccessToken) ==
    <<"  - model_name: antigravity/" \o id,
      "    litellm_params:",
      "      model: gemini/" \o id>>
    \o (IF Truthy(antigravityAccessToken)
        THEN <<"      api_key: \"" \o antigravityAccessToken.s \o "\"",
               "      api_base: \"http://127.0.0.1:51122\"">>
        ELSE <<>>)

GeminiEntry(id, googleAccessToken) ==
    <<"  - model_name: gemini/" \o id,
      "    litellm_params:",
      "      model: gemini/" \o id>>
    \o (IF Truthy(googleAccessToken)
        THEN <<"      api_key: \"" \o googleAccessToken.s \o "\"">>
        ELSE <<>>)

FallbackEntry(id, fallbackModel) ==
    <<"  - model_name: " \o id,
      "    litellm_params:",
      "      model: github_copilot/" \o fallbackModel,
      ExtraHeaders>>

RECURSIVE CopilotEntries(_, _)
CopilotEntries(copilotModels, i) ==
    IF i > Len(copilotModels) THEN <<>>
    ELSE CopilotEntry(copilotModels[i]) \o CopilotEntries(copilotModels, i + 1)

RECURSIVE AntigravityEntries(_, _)
AntigravityEntries(i, antigravityAccessToken) ==
    IF i > Len(antigravityModels) THEN <<>>
    ELSE AntigravityEntry(antigravityModels[i], antigravityAccessToken)
         \o AntigravityEntries(i + 1, antigravityAccessToken)

RECURSIVE GeminiEntries(_, _)
GeminiEntries(i, googleAccessToken) ==
    IF i > Len(geminiModels) THEN <<>>
    ELSE GeminiEntry(geminiModels[i], googleAccessToken)
         \o GeminiEntries(i + 1, googleAccessToken)

\* copilotModelIds.has(id)
HasId(copilotModels, id) ==
    \E i \in 1..Len(copilotModels) : copilotModels[i] = id

\* copilotModels.find(m => m.id.includes('gpt-4o')) || copilotModels[0],
\* then its id, or 'gpt-4o' when there is none.
FallbackModel(copilotModels) ==
    LET hits == {i \in 1..Len(copilotModels) : Includes(copilotModels[i], "gpt-4o")}
    IN  IF hits # {} THEN copilotModels[CHOOSE i \in hits : \A j \in hits : i <= j]
        ELSE IF Len(copilotModels) > 0 THEN copilotModels[1]
        ELSE "gpt-4o"

\* REQUIRED_FALLBACK_MAPPINGS.forEach(...) of generateLitellmConfig.
RECURSIVE FallbackEntries(_, _, _, _)
FallbackEntries(i, copilotModels, providerKeys, fallbackModel) ==
    IF i > Len(REQUIRED_FALLBACK_MAPPINGS) THEN <<>>
    ELSE (IF /\ ~HasId(copilotModels, REQUIRED_FALLBACK_MAPPINGS[i])
             /\ ~Truthy(Get(providerKeys, "ANTHROPIC_API_KEY"))
          THEN FallbackEntry(REQUIRED_FALLBACK_MAPPINGS[i], fallbackModel)
          ELSE <<>>)
         \o FallbackEntries(i + 1, copilotModels, providerKeys, fallbackModel)

\* generateLitellmConfig: the text it returns, line by line.
generateLitellmConfig(copilotModels, providerKeys, googleAccessToken, antigravityAccessToken) ==
    <<"model_list:">>
    \o CopilotEntries(copilotModels, 1)
    \o (IF \/ Truthy(Get(providerKeys, "ANTIGRAVITY_API_KEY"))
           \/ Truthy(antigravityAccessToken)
        THEN <<"", "  # Antigravity Models">>
             \o AntigravityEntries(1, antigravityAccessToken)
        ELSE <<>>)
    \o (IF \/ Truthy(Get(providerKeys, "GEMINI_API_KEY"))
           \/ Truthy(googleAccessToken)
        THEN <<"", "  # Gemini Models">> \o GeminiEntries(1, googleAccessToken)
        ELSE <<>>)
    \o <<"", "  # Claude Code Required Fallbacks (Routed to Copilot)">>
    \o FallbackEntries(1, copilotModels, providerKeys,
                       FallbackModel(copilotModels))
    \o <<"", "litellm_settings:", "  drop_params: true">>

\* The names kept out of a provider key list.
OwnEnvKeys == {"LITELLM_MASTER_KEY", "LITELLM_SALT_KEY", "PYTHONUTF8"}

RECURSIVE FileKeys(_, _, _)
FileKeys(lines, i, acc) ==
    IF i > Len(lines) THEN acc
    ELSE FileKeys(lines, i + 1,
                  IF lines[i].key # "" /\ lines[i].key \notin OwnEnvKeys
                  THEN ObjSet(acc, lines[i].key, JStr(lines[i].value))
                  ELSE acc)

\* if (process.env[key]) providerKeys[key] = process.env[key]
Override(providerKeys, processEnv, key) ==
    IF Truthy(Get(processEnv, key))
    THEN ObjSet(providerKeys, key, Get(processEnv, key))
    ELSE providerKeys

\* getProviderKeys(): the .env file's lines, then the process environment.
getProviderKeys(envFile, processEnv) ==
    LET fromFile == IF envFile = JUndef THEN EmptyObj
                    ELSE FileKeys(envFile, 1, EmptyObj)
    IN  Override(Override(Override(fromFile, processEnv, "GEMINI_API_KEY"),
                          processEnv, "ANTIGRAVITY_API_KEY"),
                 processEnv, "ANTHROPIC_API_KEY")

\* envContent.match(/LITELLM_MASTER_KEY=(.*)/): the value on the first line
\* that names the key, JUndef without one.
MasterKeyIn(envFile) ==
    IF envFile = JUndef THEN JUndef
    ELSE LET hits == {i \in 1..Len(envFile) : envFile[i].key = "LITELLM_MASTER_KEY"}
         IN  IF hits = {} THEN JUndef
             ELSE JStr(envFile[CHOOSE i \in hits : \A j \in hits : i <= j].value)

\* setupLitellmEnv(): [masterKey, envFile] for the two UUIDs drawn.
setupLitellmEnv(envFile, uuid1, uuid2) ==
    LET found == MasterKeyIn(envFile)
    IN  IF Truthy(found) THEN [masterKey |-> found.s, envFile |-> envFile]
        ELSE [masterKey |-> "sk-litellm-" \o uuid1,
              envFile |-> (IF envFile = JUndef THEN <<>> ELSE envFile)
                  \o <<[key |-> "LITELLM_MASTER_KEY", value |-> "sk-litellm-" \o uuid1],
                       [key |-> "LITELLM_SALT_KEY", value |-> "sk-salt-" \o uuid2],
                       [key |-> "PYTHONUTF8", value |-> "1"]>>]

ProxyUrl(proxyPort) == "http://localhost:" \o IntToStr(proxyPort)

\* updateClaudeSettings(masterKey, proxyPort): the settings file it writes, or
\* Thrown (JSON.parse rejects the file; in strict mode a property cannot be
\* read from null or created on a primitive).  No modelled file holds an
\* array under "env".
updateClaudeSettings(file, masterKey, proxyPort) ==
    IF file = Unparsable THEN Thrown
    ELSE LET settings == IF file = JUndef THEN EmptyObj ELSE file
         IN  IF settings.t # "obj" THEN Thrown
             ELSE LET env == OrElse(Get(settings, "env"), EmptyObj)
                  IN  IF env.t # "obj" THEN Thrown
                      ELSE ObjSet(settings, "env",
                               ObjSet(ObjSet(env, "ANTHROPIC_AUTH_TOKEN", JStr(masterKey)),
                                      "ANTHROPIC_BASE_URL", JStr(ProxyUrl(proxyPort))))

ModelNamePrefix == "  - model_name: "

\* getAvailableModels(): the names on the configuration's model_name lines
\* that are not required fallbacks (in a generated configuration the lines
\* /- model_name:\s*(.*)/ matches are those that start with the prefix).
getAvailableModels(config) ==
    {From(config[i], Len(ModelNamePrefix) + 1) :
        i \in {j \in 1..Len(config) :
                  /\ StartsWith(config[j], ModelNamePrefix)
                  /\ From(config[j], Len(ModelNamePrefix) + 1) # ""
                  /\ ~\E k \in 1..Len(REQUIRED_FALLBACK_MAPPINGS) :
                        REQUIRED_FALLBACK_MAPPINGS[k]
                            = From(config[j], Len(ModelNamePrefix) + 1)}}

\* console output msg, then process.exit(code)
Exit(l, msg, code) ==
    [l EXCEPT !.phase = "exited", !.said = msg, !.exitCode = code]

\* The arguments of a launch: none, a model, an alias, a bare word.
Launches ==
    {<<>>, <<"--model", "copilot/gpt-4o">>, <<"--model", "fast", "--verbose">>,
     <<"frobnicate", "--verbose">>}

PatchedEnv ==
    JObj(<<"ANTHROPIC_AUTH_TOKEN", "ANTHROPIC_BASE_URL">>,
         <<JStr("sk-litellm-old"), JStr("http://localhost:4000")>>)

SettingsFiles ==
    {JUndef, Unparsable, JNull,
     JObj(<<"env">>, <<JNull>>),
     JObj(<<"env">>, <<JObj(<<"FOO">>, <<JStr("1")>>)>>),
     JObj(<<"env", "theme">>,
          <<JObj(<<"ANTHROPIC_AUTH_TOKEN", "ANTHROPIC_BASE_URL">>,
                 <<JStr("sk-ant-user"), JStr("https://api.anthropic.com")>>),
            JStr("dark")>>),
     JObj(<<"env">>, <<PatchedEnv>>)}

EnvFiles ==
    {JUndef,
     <<[key |-> "LITELLM_MASTER_KEY", value |-> "sk-litellm-old"],
       [key |-> "LITELLM_SALT_KEY", value |-> "sk-salt-old"],
       [key |-> "PYTHONUTF8", value |-> "1"]>>,
     <<[key |-> "ANTHROPIC_API_KEY", value |-> "sk-ant-file"],
       [key |-> "LITELLM_MASTER_KEY", value |-> ""]>>}

ProcessEnvs ==
    {EmptyObj,
     JObj(<<"ANTHROPIC_API_KEY">>, <<JStr("sk-ant-env")>>),
     JObj(<<"GEMINI_API_KEY", "ANTIGRAVITY_API_KEY">>,
          <<JStr("g-key"), JStr("")>>)}

\* What the Copilot model listing answers.
Discovered ==
    {<<>>, <<"gpt-4.1", "gpt-4o-mini", "gpt-4o">>,
     <<"claude-sonnet-4">>,
     <<"claude-3-5-sonnet-20241022", "claude-sonnet-4-5-20250929",
       "claude-opus-4", "claude-sonnet-4", "grok-code-fast-1">>}

\* [google, antigravity] access tokens readGoogleToken yields.
AccessTokens ==
    {[google |-> JUndef, antigravity |-> JUndef],
     [google |-> JStr("ya29.g"), antigravity |-> JStr("ya29.a")]}

\* The two crypto.randomUUID() results of setupLitellmEnv.
UuidDraws == {<<"uuid-1", "uuid-2">>}

\* Every name the picker can show.
PickerChoices ==
    UNION {{"copilot/" \o ids[i] : i \in 1..Len(ids)} : ids \in Discovered}
    \cup {"antigravity/" \o antigravityModels[i] : i \in 1..Len(antigravityModels)}
    \cup {"gemini/" \o geminiModels[i] : i \in 1..Len(geminiModels)}

\* The codes Claude Code's close event reports (null when a signal ended it).
CloseCodes == {JNull, JNum(0), JNum(1)}

\* command && !command.startsWith('-')
BareWord(args) == Len(args) > 0 /\ args[1] # "" /\ ~StartsWith(args[1], "-")

\* resolvedArgs.includes('--model')
HasModelFlag(args) == \E i \in 1..Len(args) : args[i] = "--model"

LaunchAt(phase) == launch.phase = phase

\* The default case of main rejects a bare-word command.
RejectCommand ==
    /\ LaunchAt("start")
    /\ BareWord(launch.args)
    /\ launch' = Exit(launch, "Unknown command", 1)
    /\ UNCHANGED besideLaunch

\* checkDependencies() reports one missing and autoSetup(false) fails.
SetupFails ==
    /\ LaunchAt("start")
    /\ ~BareWord(launch.args)
    /\ launch' = Exit(launch, "Missing dependencies", 1)
    /\ UNCHANGED besideLaunch

\* doSync(true) throws before it writes (no Copilot token, the model listing
\* or a token refresh fails) and its catch exits.
SyncFails ==
    /\ LaunchAt("start")
    /\ ~BareWord(launch.args)
    /\ launch' = Exit(launch, "Polyclaude Sync Error", 1)
    /\ UNCHANGED besideLaunch

\* doSync(true): the configuration, the .env file and the settings file are
\* written in this order; a throw of updateClaudeSettings exits.
DoSync(copilotModels, processEnv, tokens, uuids) ==
    /\ LaunchAt("start")
    /\ ~BareWord(launch.args)
    /\ \E providerKeys \in {getProviderKeys(launch.envFile, processEnv)} :
       \E yamlConfig \in {generateLitellmConfig(copilotModels, providerKeys,
                              tokens.google, tokens.antigravity)} :
       \E env \in {setupLitellmEnv(launch.envFile, uuids[1], uuids[2])} :
       \E written \in {updateClaudeSettings(launch.settings, env.masterKey, 4000)} :
           launch' =
               LET l == [launch EXCEPT !.models = copilotModels,
                                       !.providerKeys = providerKeys,
                                       !.config = yamlConfig,
                                       !.envFile = env.envFile]
               IN  IF written = Thrown THEN Exit(l, "Polyclaude Sync Error", 1)
                   ELSE [l EXCEPT !.phase = "synced", !.settings = written]
    /\ UNCHANGED besideLaunch

\* args.indexOf('--model'), counted from 1; 0 when absent.
ModelIdx(args) ==
    IF HasModelFlag(args)
    THEN CHOOSE i \in 1..Len(args) :
             args[i] = "--model" /\ \A j \in 1..(i - 1) : args[j] # "--model"
    ELSE 0

\* resolveModelArg([...args]): the arguments as values, the one after
\* --model replaced by what resolveAlias gives for it.
resolveModelArg(args, file) ==
    [i \in 1..Len(args) |->
        IF ModelIdx(args) # 0 /\ i = ModelIdx(args) + 1 /\ args[i] # ""
        THEN resolveAlias(file, args[i])
        ELSE JStr(args[i])]

\* A --model flag was given: the picker is skipped.
ResolveModelArg ==
    /\ LaunchAt("synced")
    /\ HasModelFlag(launch.args)
    /\ launch' = [launch EXCEPT !.phase = "selected",
                                !.claudeArgs = resolveModelArg(launch.args, alias.file)]
    /\ UNCHANGED besideLaunch

\* selectModel() answers a model of the picker.
SelectModel(selectedModel) ==
    /\ LaunchAt("synced")
    /\ ~HasModelFlag(launch.args)
    /\ selectedModel \in getAvailableModels(launch.config)
    /\ launch' = [launch EXCEPT !.phase = "selected",
                                !.claudeArgs = resolveModelArg(launch.args, alias.file)
                                                 \o <<JStr("--model"), JStr(selectedModel)>>]
    /\ UNCHANGED besideLaunch

\* selectModel() answers null (nothing to pick from, or the prompt was
\* dismissed).
SelectNone ==
    /\ LaunchAt("synced")
    /\ ~HasModelFlag(launch.args)
    /\ launch' = Exit(launch,
                      IF getAvailableModels(launch.config) = {}
                      THEN "No models available" ELSE "", 1)
    /\ UNCHANGED besideLaunch

\* The LiteLLM process is running.
ProxyAlive == launch.proxy \in {"spawned", "ready"}

\* startProxy(false) up to the return of the pending promise: litellm is
\* spawned, the listeners and the 3 s timer are set.
StartProxy ==
    /\ LaunchAt("selected")
    /\ launch' = [launch EXCEPT !.phase = "starting", !.proxy = "spawned"]
    /\ UNCHANGED besideLaunch

\* The 'error' event of the spawn while the promise is pending: reject(err),
\* and main's catch exits.
StartProxyFails ==
    /\ LaunchAt("starting")
    /\ launch.proxy = "spawned"
    /\ launch' = Exit([launch EXCEPT !.proxy = "failed"], "Polyclaude Fatal Error", 1)
    /\ UNCHANGED besideLaunch

\* litellm prints "Uvicorn running on" on stdout or stderr while the promise
\* is pending: started = true; resolve(litellm).
ProxyReady ==
    /\ LaunchAt("starting")
    /\ launch.proxy = "spawned"
    /\ launch' = [launch EXCEPT !.phase = "proxyUp", !.proxy = "ready"]
    /\ UNCHANGED besideLaunch

\* The 3 s timer fires while the promise is pending: started = true;
\* resolve(litellm), whatever became of the process.
ProxyTimeout ==
    /\ LaunchAt("starting")
    /\ launch' = [launch EXCEPT !.phase = "proxyUp"]
    /\ UNCHANGED besideLaunch

\* litellm exits: in background mode the 'close' listener does nothing.
ProxyCloses ==
    /\ launch.phase \in {"starting", "proxyUp", "claude"}
    /\ ProxyAlive
    /\ launch' = [launch EXCEPT !.proxy = "exited"]
    /\ UNCHANGED besideLaunch

\* After the 500 ms wait runClaude(resolvedArgs) spawns claude.
RunClaude ==
    /\ LaunchAt("proxyUp")
    /\ launch' = [launch EXCEPT !.phase = "claude", !.claude = "running"]
    /\ UNCHANGED besideLaunch

\* The variant that exits with 0 whatever claude's code.
ClaudeExitsZero(exitCode) ==
    /\ LaunchAt("claude")
    /\ launch' = Exit([launch EXCEPT !.claude = "exited",
                                     !.closeCode = exitCode,
                                     !.proxy = IF ProxyAlive THEN "killed" ELSE @],
                      "", 0)
    /\ UNCHANGED besideLaunch

\* claude's 'close' event: runClaude resolves with the code, the proxy is
\* sent SIGTERM and the process exits with exitCode || 0.
ClaudeExits(exitCode) ==
    /\ LaunchAt("claude")
    /\ launch' = Exit([launch EXCEPT !.claude = "exited",
                                     !.closeCode = exitCode,
                                     !.proxy = IF ProxyAlive THEN "killed" ELSE @],
                      "", IF Truthy(exitCode) THEN exitCode.n ELSE 0)
    /\ UNCHANGED besideLaunch

\* claude's 'error' event: runClaude resolves with 1.
ClaudeErrors ==
    /\ LaunchAt("claude")
    /\ launch' = Exit([launch EXCEPT !.claude = "failed",
                                     !.closeCode = JNum(1),
                                     !.proxy = IF ProxyAlive THEN "killed" ELSE @],
                      "Failed to start Claude Code", 1)
    /\ UNCHANGED besideLaunch

\* The aliases a launch finds stored.
LaunchAliases == {JObj(<<"fast">>, <<JStr("copilot/gpt-4o")>>)}

InitLaunch ==
    /\ \E args \in Launches, file \in SettingsFiles, envFile \in EnvFiles :
          launch = [phase |-> "start", args |-> args, claudeArgs |-> <<>>,
                    settings |-> file, original |-> file, envFile |-> envFile,
                    config |-> <<>>, models |-> <<>>, providerKeys |-> EmptyObj,
                    proxy |-> "none", claude |-> "none", closeCode |-> JUndef,
                    said |-> "", exitCode |-> -1]
    /\ alias \in {[file |-> f, last |-> <<>>, said |-> ""] : f \in LaunchAliases}
    /\ token = NoToken
    /\ auth = NoAuth
    /\ suspended = NoExchange
    /\ req = NoRequest
    /\ pc = "idle"
    /\ model = JUndef
    /\ res = FreshRes
    /\ calls = <<>>
    /\ upstream = NoResponse
    /\ buffer = ""
    /\ pending = ""
    /\ outcome = ""
    /\ schema = JUndef
    /\ sanitized = NotSanitized

NextLaunch ==
    \/ RejectCommand
    \/ SetupFails
    \/ SyncFails
    \/ \E copilotModels \in Discovered, processEnv \in ProcessEnvs,
          tokens \in AccessTokens, uuids \in UuidDraws :
          DoSync(copilotModels, processEnv, tokens, uuids)
    \/ ResolveModelArg
    \/ \E selectedModel \in PickerChoices : SelectModel(selectedModel)
    \/ SelectNone
    \/ StartProxy
    \/ StartProxyFails
    \/ ProxyReady
    \/ ProxyTimeout
    \/ ProxyCloses
    \/ RunClaude
    \/ \E exitCode \in CloseCodes : ClaudeExits(exitCode)
    \/ ClaudeErrors

SpecLaunch == InitLaunch /\ [][NextLaunch]_vars

(***************************************************************************)
(* C29: the settings file after a launch.                                  *)
(***************************************************************************)

\* The entry `key` of the settings file's "env" object, JUndef without one.
EnvEntry(file, key) ==
    IF HasKey(file, "env") /\ HasKey(Get(file, "env"), key)
    THEN Get(Get(file, "env"), key)
    ELSE JUndef

ProxyEntries == {"ANTHROPIC_BASE_URL", "ANTHROPIC_AUTH_TOKEN"}

\* C29: once Claude Code has exited and the launch has ended, the settings
\* file's ANTHROPIC_BASE_URL and ANTHROPIC_AUTH_TOKEN entries are what they
\* were before the launch.
C29_Original ==
    (launch.phase = "exited" /\ launch.claude = "exited")
        => \A key \in ProxyEntries :
              EnvEntry(launch.settings, key) = EnvEntry(launch.original, key)

(***************************************************************************)
(* C30: the fallback entries of the generated configuration.               *)
(***************************************************************************)

\* The configuration has a model_name entry `name` that names a model to
\* route to.
Routed(config, name) ==
    \E i \in 1..(Len(config) - 2) :
        /\ config[i] = ModelNamePrefix \o name
        /\ StartsWith(config[i + 2], "      model: ")
        /\ From(config[i + 2], Len("      model: ") + 1) # ""

Required == {REQUIRED_FALLBACK_MAPPINGS[k] : k \in 1..Len(REQUIRED_FALLBACK_MAPPINGS)}

\* C30: in a generated configuration every required model name is a
\* model_name entry routed to a model when no Anthropic key is configured,
\* whatever Copilot models were discovered, and none is when a key is.
C30_Original ==
    (launch.phase # "none" /\ launch.config # <<>>)
        => IF Truthy(Get(launch.providerKeys, "ANTHROPIC_API_KEY"))
           THEN \A name \in Required :
                   \A i \in 1..Len(launch.config) :
                       launch.config[i] # ModelNamePrefix \o name
           ELSE \A name \in Required : Routed(launch.config, name)

(***************************************************************************)
(* C33: the family used for the tools.                                     *)
(***************************************************************************)

\* The `request` member of the envelope of a call.
EnvelopeRequest(call) == Get(call.body, "request")

\* C33: when a call is issued, the tools it carries are the request's tools
\* sanitized for the strict family exactly when the resolved model name
\* contains "claude" (for the permissive one otherwise), every other member
\* of the body is as it was, and a body without a tools member is wrapped as
\* it was.
C33_FamilyFromResolvedName ==
    [][pc = "received" /\ pc' = "awaitFetch" =>
          /\ model'.t = "str"
          /\ Get(calls'[1].body, "model") = model'
          /\ IF HasKey(req.body, "tools")
             THEN /\ Get(EnvelopeRequest(calls'[1]), "tools")
                        = sanitizeSchema(Get(req.body, "tools"),
                                         Includes(model'.s, "claude"))
                  /\ ObjDelete(EnvelopeRequest(calls'[1]), "tools")
                        = ObjDelete(req.body, "tools")
             ELSE EnvelopeRequest(calls'[1]) = req.body]_vars

\* A call for a model whose resolved name contains "claude" carries tools
\* sanitized strictly, which the permissive family would have left
\* otherwise.
C33_Witness ==
    /\ pc = "awaitFetch"
    /\ Includes(model.s, "claude")
    /\ Get(EnvelopeRequest(calls[1]), "tools") = sanitizeSchema(ScenarioTools, TRUE)
    /\ sanitizeSchema(ScenarioTools, TRUE) # sanitizeSchema(ScenarioTools, FALSE)

\* A call whose body has no tools member carries the body as it came.
C33_WitnessNoTools ==
    /\ pc = "awaitFetch"
    /\ req.body # JUndef
    /\ ~HasKey(req.body, "tools")
    /\ EnvelopeRequest(calls[1]) = req.body

(***************************************************************************)
(* C34: where the target model comes from.                                 *)
(***************************************************************************)

\* The positions of url where a segment "models/<id>:" with a non-empty id
\* free of colons starts.
SegmentStarts(url) ==
    {s \in Occurrences(url, "models/", 1) :
        \E c \in (s + 8)..Len(url) :
            /\ Char(url, c) = ":"
            /\ \A j \in (s + 7)..(c - 1) : Char(url, j) # ":"}

\* The <id> of the first such segment, "" without one.
UrlSegmentId(url) ==
    IF SegmentStarts(url) = {} THEN ""
    ELSE LET s == CHOOSE x \in SegmentStarts(url) : \A y \in SegmentStarts(url) : x <= y
             c == CHOOSE x \in (s + 8)..Len(url) :
                      /\ Char(url, x) = ":"
                      /\ \A j \in (s + 7)..(x - 1) : Char(url, j) # ":"
         IN  SubSeq(url, s + 7, c - 1)

\* The name the request asks for: the url's, else the body's, else the
\* default.
ChosenName(r) ==
    IF UrlSegmentId(r.url) # "" THEN JStr(UrlSegmentId(r.url))
    ELSE IF HasKey(r.body, "model") /\ Truthy(Get(r.body, "model"))
    THEN Get(r.body, "model")
    ELSE JStr("gemini-3.1-pro-low")

\* One lookup of a name in the mapping table: the entry's value for a key
\* of the table, the name itself for anything else.
MappedOnce(name) ==
    IF name.t = "str" /\ HasKey(MODEL_MAP, name.s) THEN Get(MODEL_MAP, name.s)
    ELSE name

\* C34: the handler's model is the name of the url's models/<id>: segment
\* when there is one, else the body's model, else gemini-3.1-pro-low, looked
\* up in the mapping table once.
C34_Original ==
    [][pc = "received" /\ model' # JUndef => model' = MappedOnce(ChosenName(req))]_vars

\* The same for the names Object.prototype does not define.
C34_ExceptInherited ==
    [][pc = "received" /\ model' # JUndef
          /\ ~(ChosenName(req).t = "str" /\ ChosenName(req).s \in ObjectPrototypeKeys)
          => model' = MappedOnce(ChosenName(req))]_vars

(***************************************************************************)
(* C35: tool parameters under a strict target.                             *)
(***************************************************************************)

\* The set of the keys of an object.
KeySet(o) == {o.k[i] : i \in 1..Len(o.k)}

\* x is an object declaring parameters: it has an object under "properties".
DeclaresParameters(x) ==
    HasKey(x, "properties") /\ Get(x, "properties").t = "obj"

RECURSIVE ParametersKept(_, _)
\* Every object of `given` that declares parameters declares the same
\* parameter names in `out`, at every place of `given` that `out` still has.
ParametersKept(given, out) ==
    IF given.t = "obj" /\ out.t = "obj"
    THEN /\ DeclaresParameters(given) =>
               /\ DeclaresParameters(out)
               /\ KeySet(Get(out, "properties")) = KeySet(Get(given, "properties"))
         /\ \A i \in 1..Len(given.k) :
               HasKey(out, given.k[i]) =>
                   ParametersKept(given.v[i], Get(out, given.k[i]))
    ELSE IF given.t = "arr" /\ out.t = "arr" /\ Len(given.a) = Len(out.a)
    THEN \A i \in 1..Len(given.a) : ParametersKept(given.a[i], out.a[i])
    ELSE TRUE

\* C35: a strict sanitization leaves the parameter names of every properties
\* object as they were, parameters named like a disallowed keyword included.
C35_Original ==
    sanitized.done /\ sanitized.isClaudeModel /\ sanitized.out # Thrown =>
        ParametersKept(schema, sanitized.out)

(***************************************************************************)
(* C36: the sanitizer on values of any shape.                              *)
(***************************************************************************)

\* C36: sanitizeSchema returns a result for every value and either family,
\* unions holding a JSON null or a scalar alternative included.
C36_Original == sanitized.done => sanitized.out # Thrown

(***************************************************************************)
(* C38: aliases under set and remove.                                      *)
(***************************************************************************)

\* name is an alias: the stored aliases have an entry for it.
IsAlias(file, name) == HasKey(loadAliases(file), name)

\* The names a resolution is asked for.
ResolvedNames == AliasNames \cup AliasModels

\* C38: a name resolves to the model stored for it when it is an alias and
\* to itself otherwise (one lookup); after "set name model" the name
\* resolves to the model and after "remove name" to itself, every other
\* name resolving as before; removing a name that is not an alias leaves
\* the stored aliases as they were.
C38_Original ==
    /\ [](\A name \in ResolvedNames :
             resolveAlias(alias.file, name)
                 = IF IsAlias(alias.file, name)
                   THEN Get(loadAliases(alias.file), name)
                   ELSE JStr(name))
    /\ [][alias'.last # <<>> /\ alias'.last[2] # "" /\ alias' # alias =>
             /\ alias'.last[1] = "set" /\ alias'.last[3] # "" =>
                   resolveAlias(alias'.file, alias'.last[2]) = JStr(alias'.last[3])
             /\ alias'.last[1] = "remove" =>
                   /\ resolveAlias(alias'.file, alias'.last[2]) = JStr(alias'.last[2])
                   /\ ~IsAlias(alias.file, alias'.last[2]) =>
                         loadAliases(alias'.file) = loadAliases(alias.file)
             /\ \A name \in ResolvedNames \ {alias'.last[2]} :
                   resolveAlias(alias'.file, name) = resolveAlias(alias.file, name)]_vars

\* The same for the names Object.prototype does not define.
C38_ExceptInherited ==
    /\ [](\A name \in ResolvedNames \ ObjectPrototypeKeys :
             resolveAlias(alias.file, name)
                 = IF IsAlias(alias.file, name)
                   THEN Get(loadAliases(alias.file), name)
                   ELSE JStr(name))
    /\ [][alias'.last # <<>> /\ alias'.last[2] # "" /\ alias' # alias
             /\ alias'.last[2] \notin ObjectPrototypeKeys =>
             /\ alias'.last[1] = "set" /\ alias'.last[3] # "" =>
                   resolveAlias(alias'.file, alias'.last[2]) = JStr(alias'.last[3])
             /\ alias'.last[1] = "remove" =>
                   /\ resolveAlias(alias'.file, alias'.last[2]) = JStr(alias'.last[2])
                   /\ ~IsAlias(alias.file, alias'.last[2]) =>
                         loadAliases(alias'.file) = loadAliases(alias.file)
             /\ \A name \in ResolvedNames \ ({alias'.last[2]} \cup ObjectPrototypeKeys) :
                   resolveAlias(alias'.file, name) = resolveAlias(alias.file, name)]_vars

(***************************************************************************)
(* C31: arguments that are no documented command.                          *)
(***************************************************************************)

\* The commands the README's table documents beside the bare launch.
DocumentedCommands == {"setup", "login", "list", "start"}

\* C31: a launch whose first argument is not a documented command is not
\* rejected, and once claude is spawned each of its arguments has been
\* handed to it (the value after --model as resolveModelArg leaves it).
C31_Original ==
    (launch.phase # "none" /\ Len(launch.args) > 0
        /\ launch.args[1] \notin DocumentedCommands) =>
        /\ launch.said # "Unknown command"
        /\ launch.claude # "none" =>
              /\ Len(launch.claudeArgs) >= Len(launch.args)
              /\ \A i \in 1..Len(launch.args) :
                    launch.claudeArgs[i]
                        = resolveModelArg(launch.args, alias.file)[i]

(***************************************************************************)
(* C32: the order of a launch.                                             *)
(***************************************************************************)

\* The configuration is written and the settings file points at the proxy
\* with a master key the .env file holds.
SyncedAndPatched ==
    /\ launch.config # <<>>
    /\ launch.envFile # JUndef
    /\ EnvEntry(launch.settings, "ANTHROPIC_BASE_URL") = JStr("http://localhost:4000")
    /\ \E i \in 1..Len(launch.envFile) :
          /\ launch.envFile[i].key = "LITELLM_MASTER_KEY"
          /\ launch.envFile[i].value # ""
          /\ EnvEntry(launch.settings, "ANTHROPIC_AUTH_TOKEN")
                = JStr(launch.envFile[i].value)

C32_WitnessNull ==
    /\ launch.phase = "exited"
    /\ launch.claude = "exited"
    /\ launch.closeCode = JNull
    /\ launch.exitCode = 0

(***************************************************************************)
(* C40: claude and a proxy that did not start.                             *)
(***************************************************************************)

\* C40: claude is spawned only when litellm has signalled readiness and is
\* still running.
C40_Original ==
    [][launch.claude = "none" /\ launch'.claude = "running" =>
          launch.proxy = "ready"]_vars

(***************************************************************************)
(* The Google / Antigravity token file: the logins that write it and       *)
(* readGoogleToken, which doSync calls and which refreshes an expired      *)
(* token.  Times are Date.now() values in milliseconds.                    *)
(***************************************************************************)

\* The two constants of the official client, abbreviated.
GEMINI_CLI_CLIENT_ID == "gemini-cli-client-id"
GEMINI_CLI_CLIENT_SECRET == "gemini-cli-client-secret"

\* JSON.stringify leaves out the members whose value is undefined.
RECURSIVE DefinedMembersFrom(_, _)
DefinedMembersFrom(o, i) ==
    IF i > Len(o.k) THEN EmptyObj
    ELSE LET rest == DefinedMembersFrom(o, i + 1)
         IN  IF o.v[i] = JUndef THEN rest
             ELSE JObj(<<o.k[i]>> \o rest.k, <<o.v[i]>> \o rest.v)

\* JSON.parse(JSON.stringify(o)) of an object of strings and numbers.
Stringified(o) == DefinedMembersFrom(o, 1)

\* envVar(key): process.env or the .env file, '' when neither has the key.
envVar(env, key) == OrElse(Get(env, key), JStr(""))

getGoogleClientId(env) == envVar(env, "GOOGLE_CLIENT_ID")
getGoogleClientSecret(env) == envVar(env, "GOOGLE_CLIENT_SECRET")

\* tryImportGeminiCliCredentials(targetPath): the token file it writes, or
\* JUndef when it returns false (no file, no JSON, null, no refresh_token).
tryImportGeminiCliCredentials(creds) ==
    IF creds = JUndef \/ creds = Unparsable \/ creds = JNull THEN JUndef
    ELSE IF ~Truthy(Get(creds, "refresh_token")) THEN JUndef
    ELSE Stringified(JObj(
             <<"access_token", "refresh_token", "expires_at", "client_id", "client_secret">>,
             <<OrElse(Get(creds, "access_token"), JStr("")),
               Get(creds, "refresh_token"),
               OrElse(Get(creds, "expiry_date"), JNum(0)),
               JStr(GEMINI_CLI_CLIENT_ID),
               JStr(GEMINI_CLI_CLIENT_SECRET)>>))

\* doOAuthFlow(config): the token file written after the code exchange.
doOAuthFlow(tokenData, clientId, clientSecret, now) ==
    Stringified(JObj(
        <<"access_token", "refresh_token", "expires_at", "client_id", "client_secret">>,
        <<Get(tokenData, "access_token"),
          Get(tokenData, "refresh_token"),
          JNum(now + Get(tokenData, "expires_in").n * 1000),
          clientId,
          clientSecret>>))

\* readGoogleToken(tokenPath, quiet) at time now, refreshRes being the answer
\* a refresh request gets: [result, file, request], the request being the
\* refresh request sent, if any.  A thrown result leaves through doSync's
\* catch.
readGoogleToken(file, env, now, refreshRes) ==
    LET tokenData == file
        quiet(result) == [result |-> result, file |-> file, request |-> JUndef]
    IN  IF file = JUndef THEN quiet(JUndef)
        ELSE IF file = Unparsable THEN quiet(Thrown)
        ELSE IF tokenData = JNull \/ ~Truthy(Get(tokenData, "access_token"))
        THEN quiet(JUndef)
        ELSE IF now > Get(tokenData, "expires_at").n
                /\ Truthy(Get(tokenData, "refresh_token"))
        THEN LET clientId == OrElse(Get(tokenData, "client_id"), getGoogleClientId(env))
                 clientSecret == OrElse(Get(tokenData, "client_secret"),
                                        getGoogleClientSecret(env))
                 request == JObj(<<"client_id", "client_secret", "refresh_token", "grant_type">>,
                                 <<clientId, clientSecret,
                                   Get(tokenData, "refresh_token"), JStr("refresh_token")>>)
             IN  IF ~Truthy(clientId) \/ ~Truthy(clientSecret) THEN quiet(JUndef)
                 ELSE IF ~refreshRes.ok
                 THEN [result |-> Thrown, file |-> file, request |-> request]
                 ELSE LET newTokens == refreshRes.body
                      IN  [result |-> Get(newTokens, "access_token"),
                           file |-> Stringified(JObj(
                               <<"access_token", "refresh_token", "expires_at">>,
                               <<Get(newTokens, "access_token"),
                                 Get(tokenData, "refresh_token"),
                                 JNum(now + Get(newTokens, "expires_in").n * 1000)>>)),
                           request |-> request]
        ELSE quiet(Get(tokenData, "access_token"))

\* The number of seconds for which the clock is followed.
MaxSeconds == 4

\* What ~/.gemini/oauth_creds.json holds.
GeminiCliCreds ==
    {JUndef,
     JObj(<<"access_token", "refresh_token", "expiry_date">>,
          <<JStr("ya29.cli"), JStr("1//cli"), JNum(1000)>>),
     JObj(<<"refresh_token">>, <<JStr("1//cli")>>)}

\* Answers of the code exchange.
GoogleTokenResponses ==
    {JObj(<<"access_token", "expires_in", "refresh_token">>,
          <<JStr("ya29.a"), JNum(1), JStr("1//r")>>),
     JObj(<<"access_token", "expires_in">>, <<JStr("ya29.a"), JNum(2)>>)}

\* Answers of the refresh request.
RefreshResponses ==
    {[ok |-> FALSE, body |-> JUndef]} \cup
    {[ok |-> TRUE,
      body |-> JObj(<<"access_token", "expires_in">>, <<JStr("ya29.b"), JNum(n)>>)] :
        n \in {1, 2}}

\* GOOGLE_CLIENT_ID / GOOGLE_CLIENT_SECRET of the environment.
ClientEnvs ==
    {EmptyObj,
     JObj(<<"GOOGLE_CLIENT_ID", "GOOGLE_CLIENT_SECRET">>,
          <<JStr("user-client-id"), JStr("user-client-secret")>>)}

Stored(t, file) == [t EXCEPT !.phase = "stored", !.file = file, !.stored = file]

\* loginFlow('gemini'): the client of the environment (asked for and saved
\* when missing, which the initial environments without one stand for by
\* not offering this login), then doOAuthFlow.
LoginGemini(tokenData) ==
    /\ token.phase = "loggedOut"
    /\ Truthy(getGoogleClientId(token.env))
    /\ Truthy(getGoogleClientSecret(token.env))
    /\ token' = Stored(token, doOAuthFlow(tokenData, getGoogleClientId(token.env),
                                          getGoogleClientSecret(token.env), token.now))
    /\ UNCHANGED besideToken

\* loginFlow('antigravity'): the Gemini CLI credentials when they can be
\* imported, else doOAuthFlow with the official client.
LoginAntigravity(creds, tokenData) ==
    /\ token.phase = "loggedOut"
    /\ \E imported \in {tryImportGeminiCliCredentials(creds)} :
          token' = Stored(token,
                      IF imported # JUndef THEN imported
                      ELSE doOAuthFlow(tokenData, JStr(GEMINI_CLI_CLIENT_ID),
                                       JStr(GEMINI_CLI_CLIENT_SECRET), token.now))
    /\ UNCHANGED besideToken

\* A second of wall-clock time passes.
Tick ==
    /\ token.phase = "stored"
    /\ token.now < MaxSeconds * 1000
    /\ token' = [token EXCEPT !.now = @ + 1000]
    /\ UNCHANGED besideToken

\* doSync reads the token file.
ReadToken(refreshRes) ==
    /\ token.phase = "stored"
    /\ \E r \in {readGoogleToken(token.file, token.env, token.now, refreshRes)} :
          token' = [token EXCEPT
                       !.file = r.file,
                       !.last = r.result,
                       !.request = r.request,
                       !.reads = IF @ < 2 THEN @ + 1 ELSE @,
                       !.refreshes = IF r.file # token.file THEN @ + 1 ELSE @]
    /\ UNCHANGED besideToken

InitToken ==
    /\ \E env \in ClientEnvs :
          token = [phase |-> "loggedOut", file |-> JUndef, stored |-> JUndef,
                   env |-> env, now |-> 0, last |-> JUndef, request |-> JUndef,
                   reads |-> 0, refreshes |-> 0]
    /\ launch = NoLaunch
    /\ alias = NoAlias
    /\ auth = NoAuth
    /\ suspended = NoExchange
    /\ req = NoRequest
    /\ pc = "idle"
    /\ model = JUndef
    /\ res = FreshRes
    /\ calls = <<>>
    /\ upstream = NoResponse
    /\ buffer = ""
    /\ pending = ""
    /\ outcome = ""
    /\ schema = JUndef
    /\ sanitized = NotSanitized

NextToken ==
    \/ \E tokenData \in GoogleTokenResponses : LoginGemini(tokenData)
    \/ \E creds \in GeminiCliCreds, tokenData \in GoogleTokenResponses :
          LoginAntigravity(creds, tokenData)
    \/ Tick
    \/ \E refreshRes \in RefreshResponses : ReadToken(refreshRes)

SpecToken == InitToken /\ [][NextToken]_vars

(***************************************************************************)
(* C37: the token file after refreshes.                                    *)
(***************************************************************************)

\* The members a refresh needs.
RefreshMembers == {"refresh_token", "client_id", "client_secret"}

\* C37: after any number of successful refreshes the token file holds the
\* refresh_token, client_id and client_secret it was stored with, and a read
\* of the file that is not refused by the server yields an access token.
C37_Original ==
    (token.phase = "stored" /\ token.refreshes > 0) =>
        /\ \A key \in RefreshMembers :
              Get(token.file, key) = Get(token.stored, key)
        /\ token.last # JUndef

\* The part of C37 that holds: the refresh_token is kept by every refresh.
C37_RefreshTokenKept ==
    (token.phase = "stored" /\ token.refreshes > 0) =>
        Get(token.file, "refresh_token") = Get(token.stored, "refresh_token")

(***************************************************************************)
(* doCopilotAuth: the device code request and the polling loop.  interval  *)
(* is in milliseconds; every poll is preceded by a wait of interval + 500. *)
(***************************************************************************)

\* The number of polls followed.
MaxPolls == 4

\* deviceData.interval, in seconds.
DeviceIntervals == {5, 10}

\* The JSON bodies of an OK answer to a poll.
TokenAnswers ==
    {JObj(<<"access_token", "token_type">>, <<JStr("gho_new"), JStr("bearer")>>),
     JObj(<<"error">>, <<JStr("authorization_pending")>>),
     JObj(<<"error">>, <<JStr("slow_down")>>),
     JObj(<<"error">>, <<JStr("access_denied")>>),
     JObj(<<"error">>, <<JStr("expired_token")>>),
     EmptyObj,
     JNull}

\* The token file before the login.
CopilotTokenFiles == {JUndef, JObj(<<"oauth_token">>, <<JStr("gho_old")>>)}

NoPoll == [kind |-> "none", data |-> JUndef]

\* The device code request is answered not-OK or fails: the throw is caught
\* by the function's catch and nothing is polled.
DeviceCodeFails ==
    /\ auth.phase = "start"
    /\ auth' = [auth EXCEPT !.phase = "stopped",
                            !.said = "Error during Copilot Authentication"]
    /\ UNCHANGED besideAuth

\* The device code is shown and the loop is entered.
DeviceCode(seconds) ==
    /\ auth.phase = "start"
    /\ auth' = [auth EXCEPT !.phase = "polling", !.interval = seconds * 1000]
    /\ UNCHANGED besideAuth

\* A poll is answered with a status that is not OK: continue.
PollNotOk ==
    /\ auth.phase = "polling"
    /\ auth.polls < MaxPolls
    /\ auth' = [auth EXCEPT !.polls = @ + 1,
                            !.waited = @ + auth.interval + 500,
                            !.last = [kind |-> "notOk", data |-> JUndef]]
    /\ UNCHANGED besideAuth

\* fetch or tokenRes.json() rejects: the loop is left through the catch.
PollFails ==
    /\ auth.phase = "polling"
    /\ auth.polls < MaxPolls
    /\ auth' = [auth EXCEPT !.polls = @ + 1,
                            !.waited = @ + auth.interval + 500,
                            !.last = [kind |-> "fails", data |-> JUndef],
                            !.phase = "stopped",
                            !.said = "Error during Copilot Authentication"]
    /\ UNCHANGED besideAuth

\* PollAnswered with a slow_down that leaves the interval as it is.
PollAnsweredKeepingInterval(tokenData) ==
    /\ auth.phase = "polling"
    /\ auth.polls < MaxPolls
    /\ auth' =
         LET a == [auth EXCEPT !.polls = @ + 1,
                               !.waited = @ + auth.interval + 500,
                               !.last = [kind |-> "answer", data |-> tokenData]]
         IN  IF tokenData = JNull
             THEN [a EXCEPT !.phase = "stopped",
                            !.said = "Error during Copilot Authentication"]
             ELSE IF Truthy(Get(tokenData, "access_token"))
             THEN [a EXCEPT !.phase = "stopped",
                            !.file = JObj(<<"oauth_token">>, <<Get(tokenData, "access_token")>>),
                            !.writes = @ + 1,
                            !.said = "Successfully authenticated with GitHub Copilot!"]
             ELSE IF Get(tokenData, "error") = JStr("authorization_pending") THEN a
             ELSE IF Get(tokenData, "error") = JStr("slow_down") THEN a
             ELSE IF Truthy(Get(tokenData, "error"))
             THEN [a EXCEPT !.phase = "stopped", !.said = "Authentication failed"]
             ELSE a
    /\ UNCHANGED besideAuth

\* A poll is answered OK with the JSON body tokenData (a null body raises at
\* tokenData.access_token and leaves through the catch).
PollAnswered(tokenData) ==
    /\ auth.phase = "polling"
    /\ auth.polls < MaxPolls
    /\ auth' =
         LET a == [auth EXCEPT !.polls = @ + 1,
                               !.waited = @ + auth.interval + 500,
                               !.last = [kind |-> "answer", data |-> tokenData]]
         IN  IF tokenData = JNull
             THEN [a EXCEPT !.phase = "stopped",
                            !.said = "Error during Copilot Authentication"]
             ELSE IF Truthy(Get(tokenData, "access_token"))
             THEN [a EXCEPT !.phase = "stopped",
                            !.file = JObj(<<"oauth_token">>, <<Get(tokenData, "access_token")>>),
                            !.writes = @ + 1,
                            !.said = "Successfully authenticated with GitHub Copilot!"]
             ELSE IF Get(tokenData, "error") = JStr("authorization_pending") THEN a
             ELSE IF Get(tokenData, "error") = JStr("slow_down")
             THEN [a EXCEPT !.interval = @ + 5000]
             ELSE IF Truthy(Get(tokenData, "error"))
             THEN [a EXCEPT !.phase = "stopped", !.said = "Authentication failed"]
             ELSE a
    /\ UNCHANGED besideAuth

InitAuth ==
    /\ \E file \in CopilotTokenFiles :
          auth = [phase |-> "start", interval |-> 0, polls |-> 0, waited |-> 0,
                  file |-> file, writes |-> 0, last |-> NoPoll, said |-> ""]
    /\ launch = NoLaunch
    /\ alias = NoAlias
    /\ token = NoToken
    /\ suspended = NoExchange
    /\ req = NoRequest
    /\ pc = "idle"
    /\ model = JUndef
    /\ res = FreshRes
    /\ calls = <<>>
    /\ upstream = NoResponse
    /\ buffer = ""
    /\ pending = ""
    /\ outcome = ""
    /\ schema = JUndef
    /\ sanitized = NotSanitized

NextAuth ==
    \/ DeviceCodeFails
    \/ \E seconds \in DeviceIntervals : DeviceCode(seconds)
    \/ PollNotOk
    \/ PollFails
    \/ \E tokenData \in TokenAnswers : PollAnswered(tokenData)

SpecAuth == InitAuth /\ [][NextAuth]_vars

(***************************************************************************)
(* C39: the polling loop.                                                  *)
(***************************************************************************)

\* What a poll got.
TokenReceived(r) ==
    r.kind = "answer" /\ r.data # JNull /\ Truthy(Get(r.data, "access_token"))

ErrorOf(r) ==
    IF r.kind = "answer" /\ r.data # JNull /\ ~Truthy(Get(r.data, "access_token"))
    THEN Get(r.data, "error")
    ELSE JUndef

Pending(r) == ErrorOf(r) = JStr("authorization_pending")
SlowDown(r) == ErrorOf(r) = JStr("slow_down")
OtherError(r) == Truthy(ErrorOf(r)) /\ ~Pending(r) /\ ~SlowDown(r)

\* The poll request itself failed: fetch or json() rejected, or the body
\* was null.
RequestFailed(r) == r.kind = "fails" \/ (r.kind = "answer" /\ r.data = JNull)

\* A step of the loop: one more poll was made.
PollStep == auth.phase = "polling" /\ auth'.polls = auth.polls + 1

\* What the claim says of every poll apart from when the loop stops.
PollingRule ==
    LET r == auth'.last
    IN  /\ (Pending(r) \/ SlowDown(r) \/ r.kind = "notOk") => auth'.phase = "polling"
        /\ auth'.interval = IF SlowDown(r) THEN auth.interval + 5000 ELSE auth.interval
        /\ auth'.interval >= auth.interval
        /\ auth'.waited = auth.waited + auth.interval + 500
        /\ IF TokenReceived(r)
           THEN /\ auth'.file = JObj(<<"oauth_token">>, <<Get(r.data, "access_token")>>)
                /\ auth'.writes = auth.writes + 1
           ELSE auth'.file = auth.file /\ auth'.writes = auth.writes

\* C39 as stated: at every poll the loop keeps polling on
\* authorization_pending, slow_down (interval raised) and a non-OK answer,
\* stops exactly when a token was received or another error was returned,
\* and writes the token file only for a token, at most once.
C39_Original ==
    /\ [][PollStep =>
            /\ PollingRule
            /\ auth'.phase = "stopped"
                 <=> (TokenReceived(auth'.last) \/ OtherError(auth'.last))]_vars
    /\ [](auth.phase # "none" => auth.writes <= 1)

\* C39, amended: as stated, except that the loop stops exactly when a token
\* was received, another error was returned, or the poll request itself
\* failed (which leaves through the catch without a token file); nothing
\* happens after the stop.
C39_PollingLoop ==
    /\ [][PollStep =>
            /\ PollingRule
            /\ auth'.phase = "stopped"
                 <=> (\/ TokenReceived(auth'.last)
                      \/ OtherError(auth'.last)
                      \/ RequestFailed(auth'.last))]_vars
    /\ [][auth.phase = "stopped" => auth' = auth]_vars
    /\ [](auth.phase # "none" => auth.writes <= 1)

\* The loop was slowed down, kept polling and stopped with the token written.
C39_Witness ==
    /\ auth.phase = "stopped"
    /\ auth.polls >= 3
    /\ auth.interval = 10000
    /\ auth.writes = 1
    /\ auth.file = JObj(<<"oauth_token">>, <<JStr("gho_new")>>)

\* The loop stopped because a poll request failed; the token file is as it was.
C39_WitnessFailed ==
    /\ auth.phase = "stopped"
    /\ auth.polls >= 2
    /\ RequestFailed(auth.last)
    /\ auth.writes = 0
    /\ auth.file = JObj(<<"oauth_token">>, <<JStr("gho_old")>>)

=============================================================================
